---- MODULE Spec2Model ----
(***************************************************************************)
(* The flow execution engine of agent-flow: Flow (graph of nodes joined by *)
(* conditional connections, traversed depth-first), Node, SharedStore and  *)
(* the error-recovery wrappers (withRetry, withTimeout).                   *)
(*                                                                         *)
(* JavaScript runs one synchronous section at a time; an async function    *)
(* gives up control at every await.  Every action below is one synchronous *)
(* section: from the point where an await resumes (or a call is made) to   *)
(* the next await.                                                         *)
(***************************************************************************)
EXTENDS Integers, Sequences, FiniteSets, TLC

VARIABLES
    script,         \* the caller's remaining addNode / connect calls
    nodes,          \* Flow.nodes: the registered node ids
    connections,    \* Flow.connections: list of {from, to, condition}
    startNodes,     \* Flow.startNodes: a Set, kept in insertion order
    executedNodes,  \* Flow.executedNodes
    abortSignal,    \* Flow.abortSignal: "none" or the signal "s"
    aborted,        \* the aborted flag of the signal "s"
    store,          \* SharedStore.data: key -> value
    call,           \* the Flow.execute call: phase, options, result
    tasks,          \* the pending executeNode call chains, one per promise
    trace,          \* history: what happened, in order
    wrap,           \* one call of a wrapper node of ErrorRecoveryUtils
    batch,          \* the Flow.batch call: items, position, results
    subscribers,    \* SharedStore.subscribers: key -> callbacks, in insertion order
    observable,     \* the ObservableFlow around the Flow: listeners, its execute call
    retryNode       \* a RetryNode instance: its attempts field, its calls under way

vars == <<script, nodes, connections, startNodes, executedNodes, abortSignal,
          aborted, store, call, tasks, trace, wrap, batch, subscribers, observable, retryNode>>

(***************************************************************************)
(* Values.  Every JavaScript value of the model is a record of one shape.  *)
(***************************************************************************)
Nodes == {"A", "B", "C", "D"}

Routes == {"b", "c"}

\* a connection has no condition, or (out) => out.route === 'b', or ... === 'c'
CondKinds == {"none", "b", "c"}

Undefined == [kind |-> "undefined", by |-> "", data |-> ""]

\* the object a process function of node n returns: {route: r}
Out(n, r) == [kind |-> "value", by |-> n, data |-> r]

\* the Error a process function of node n throws
Err(n) == [kind |-> "error", by |-> n, data |-> "x"]

AbortError == [kind |-> "error", by |-> "flow", data |-> "Execution aborted"]

NoStartError == [kind |-> "error", by |-> "flow", data |-> "No start nodes found in flow"]

NotFoundError(n) == [kind |-> "error", by |-> "flow", data |-> "not found"]

\* the input the caller hands to execute
CallerInput == [kind |-> "value", by |-> "caller", data |-> "b"]

\* the values the caller passes as options.input
Inputs == {CallerInput}

Pending == [st |-> "none", val |-> Undefined]

Resolved(v) == [st |-> "resolved", val |-> v]

Rejected(e) == [st |-> "rejected", val |-> e]

Last(s) == s[Len(s)]

Front(s) == SubSeq(s, 1, Len(s) - 1)

Range(s) == {s[i] : i \in 1..Len(s)}

(***************************************************************************)
(* SharedStore                                                             *)
(***************************************************************************)
OutputKey(id) == <<"node", id, "output">>

ErrorKey(id) == <<"node", id, "error">>

StoreHas(st, key) == key \in DOMAIN st

StoreGet(st, key) == IF key \in DOMAIN st THEN st[key] ELSE Undefined

StoreSet(st, key, value) ==
    [k \in (DOMAIN st) \cup {key} |-> IF k = key THEN value ELSE st[k]]

EmptyStore == [k \in {} |-> Undefined]

\* the contents of the store after this.data.delete(key)
StoreDelete(st, key) == [k \in (DOMAIN st) \ {key} |-> st[k]]

\* a JavaScript array held in the store
ArrayOf(items) == [kind |-> "array", by |-> "", data |-> "", items |-> items]

\* Array.isArray(v)
IsArray(v) == v.kind = "array"

\* append always starts a new array
StoreAppendReplace(st, key, value) == StoreSet(st, key, ArrayOf(<<value>>))

\* the contents of the store after append(key, value): push to the array the
\* key holds, or set(key, [value])
StoreAppend(st, key, value) ==
    IF IsArray(StoreGet(st, key))
    THEN StoreSet(st, key, ArrayOf(Append(StoreGet(st, key).items, value)))
    ELSE StoreSet(st, key, ArrayOf(<<value>>))

(***************************************************************************)
(* Node.execute: the two ways it ends once the process function settled.   *)
(***************************************************************************)
NodeExecuteSuccess(st, id, result) == StoreSet(st, OutputKey(id), result)

\* the error is recorded under the output key
NodeExecuteFailureAsOutput(st, id, error) == StoreSet(st, OutputKey(id), error)

NodeExecuteFailure(st, id, error) == StoreSet(st, ErrorKey(id), error)

(***************************************************************************)
(* Flow: building the graph                                                *)
(***************************************************************************)
AddNodeOp(n) == [op |-> "addNode", a |-> n, b |-> "", c |-> "none"]

ConnectOp(from, to, cond) == [op |-> "connect", a |-> from, b |-> to, c |-> cond]

\* Set.add: a new member goes to the end, a present one keeps its place
SetAdd(s, x) == IF x \in Range(s) THEN s ELSE Append(s, x)

\* Set.delete
SetDelete(s, x) == LET Keep(y) == y # x IN SelectSeq(s, Keep)

\* the start set after addNode(node): this.startNodes.add(node.getId())
StartNodesAfterAdd(start, n) == SetAdd(start, n)

\* connect leaves the start set alone
StartNodesAfterConnectKept(start, to) == start

\* the start set after connect(from, to): this.startNodes.delete(to)
StartNodesAfterConnect(start, to) == SetDelete(start, to)

(***************************************************************************)
(* Flow.executeNode                                                        *)
(***************************************************************************)
Event(ev, node, val, edge, flag) ==
    [ev |-> ev, node |-> node, val |-> val, edge |-> edge, flag |-> flag]

\* the signal is never looked at
AbortRequestedNever(sig, flag) == FALSE

\* this.abortSignal?.aborted
AbortRequested(sig, flag) == sig # "none" /\ flag

\* no guard against a second execution
AlreadyExecutedNever(executed, nodeId) == FALSE

\* this.executedNodes.has(nodeId)
AlreadyExecuted(executed, nodeId) == nodeId \in executed

\* conn.condition(output, store) for the conditions of the model
EvalCondition(cond, output, st) == output.data = cond

\* the condition is not consulted
ConditionIgnored(conn, output, st) == TRUE

\* the edge is followed unless: conn.condition && !conn.condition(output, store)
ConditionPasses(conn, output, st) ==
    conn.condition = "none" \/ EvalCondition(conn.condition, output, st)

\* the outgoing connections, last declared first
OutgoingConnectionsReversed(conns, nodeId) ==
    LET From(i) == conns[i].from = nodeId
        fwd == SelectSeq([i \in 1..Len(conns) |-> i], From)
    IN  [k \in 1..Len(fwd) |-> fwd[Len(fwd) + 1 - k]]

\* this.connections.filter((conn) => conn.from === nodeId), as indices
OutgoingConnections(conns, nodeId) ==
    LET From(i) == conns[i].from = nodeId
    IN  SelectSeq([i \in 1..Len(conns) |-> i], From)

\* the first fired edge wins: targetResults[0]
TraversalResultFirst(targetResults, output) ==
    IF Len(targetResults) > 0 THEN targetResults[1] ELSE output

\* targetResults.length > 0 ? targetResults[targetResults.length - 1] : output
TraversalResult(targetResults, output) ==
    IF Len(targetResults) > 0 THEN targetResults[Len(targetResults)] ELSE output

\* let result; for (...) { result = await this.executeNode(...) }; return result
SequentialResult(results) ==
    IF results = <<>> THEN Undefined ELSE Last(results)

\* only the first start node is taken
StartNodeIdsFirstOnly(start) == IF start = <<>> THEN start ELSE <<Head(start)>>

\* Array.from(this.startNodes)
StartNodeIds(start) == start

\* this.nodes.size === 0
NoNodes(registered) == Cardinality(registered) = 0

\* the check for an empty start set is missing
NoStartNodesUnchecked(start) == FALSE

\* this.startNodes.size === 0
NoStartNodes(start) == Len(start) = 0

\* how a call executeNode(nodeId, ...) goes, up to its first await
EnterKind(nodeId, sig, flag, registered, executed) ==
    IF AbortRequested(sig, flag) THEN "abort"
    ELSE IF nodeId \notin registered THEN "missing"
    ELSE IF AlreadyExecuted(executed, nodeId) THEN "skip"
    ELSE "invoke"

\* the frame of an executeNode call that awaits node.execute(input, store)
NodeFrame(nodeId, input) ==
    [kind |-> "executeNode", node |-> nodeId, input |-> input, pc |-> "awaitNode",
     output |-> Undefined, todo |-> <<>>, results |-> <<>>, settled |-> Pending]

\* the frame of a sequential execute: its loop over startNodeIds
ExecuteFrame(input, ids) ==
    [kind |-> "execute", node |-> "", input |-> input, pc |-> "awaitTarget",
     output |-> Undefined, todo |-> [i \in 1..Len(ids) |-> i], results |-> <<>>,
     settled |-> Pending]

\* the promise of the popped frame never settles
DeliverNever(rest, outcome) == rest

\* the promise of the popped frame settles: the frame below it can resume
Deliver(rest, outcome) ==
    IF rest = <<>> THEN rest
    ELSE [rest EXCEPT ![Len(rest)].settled = outcome]

\* the for loop of executeNode (or of a sequential execute) from where frame f
\* stands, up to its next await or its return
RunLoop(rest, f, ids, executed, sig, st) ==
    LET target(i) == IF f.kind = "execute" THEN ids[i] ELSE connections[i].to
        passes(i) == IF f.kind = "execute" THEN TRUE
                     ELSE ConditionPasses(connections[i], f.output, st)
        firing == {k \in 1..Len(f.todo) : passes(f.todo[k])}
        first  == IF firing = {} THEN 0
                  ELSE CHOOSE k \in firing : \A j \in firing : k <= j
        seen   == IF first = 0 THEN Len(f.todo) ELSE first
        evals  == IF f.kind = "execute" THEN <<>>
                  ELSE [k \in 1..seen |->
                          Event("eval", f.node, f.output, f.todo[k], k = first)]
    IN  IF first = 0
        THEN LET v == IF f.kind = "execute" THEN SequentialResult(f.results)
                      ELSE TraversalResult(f.results, f.output)
                 ret == IF f.kind = "execute" THEN <<>>
                        ELSE <<Event("return", f.node, v, 0, TRUE)>>
             IN  [stack |-> Deliver(rest, Resolved(v)), executed |-> executed,
                  events |-> evals \o ret,
                  done |-> IF rest = <<>> THEN Resolved(v) ELSE Pending]
        ELSE LET to  == target(f.todo[first])
                 arg == IF f.kind = "execute" THEN f.input ELSE f.output
                 via == IF f.kind = "execute" THEN 0 ELSE f.todo[first]
                 how == EnterKind(to, sig, aborted, nodes, executed)
                 g   == [f EXCEPT !.pc = "awaitTarget",
                                  !.todo = SubSeq(f.todo, first + 1, Len(f.todo)),
                                  !.settled =
                                      CASE how = "abort" -> Rejected(AbortError)
                                        [] how = "missing" -> Rejected(NotFoundError(to))
                                        [] how = "skip" ->
                                             Resolved(StoreGet(st, OutputKey(to)))
                                        [] OTHER -> Pending]
             IN  [stack |-> IF how = "invoke"
                            THEN rest \o <<g, NodeFrame(to, arg)>>
                            ELSE rest \o <<g>>,
                  executed |-> IF how = "invoke" THEN executed \cup {to} ELSE executed,
                  events |-> evals \o <<Event(how, to, arg, via, f.kind = "execute")>>,
                  done |-> Pending]

\* a frame that catches the failure it awaited and walks on
ResumeStepSwallow(stack, ids, executed, sig, st) ==
    LET f    == Last(stack)
        rest == Front(stack)
    IN  IF f.pc = "awaitNode"
        THEN RunLoop(rest,
                     [f EXCEPT !.output = f.settled.val,
                               !.todo = OutgoingConnections(connections, f.node),
                               !.results = <<>>,
                               !.settled = Pending],
                     ids, executed, sig, st)
        ELSE RunLoop(rest,
                     [f EXCEPT !.results = Append(@, f.settled.val),
                               !.settled = Pending],
                     ids, executed, sig, st)

\* the top frame of a call chain resumes after the await it stood at
ResumeStep(stack, ids, executed, sig, st) ==
    LET f    == Last(stack)
        rest == Front(stack)
    IN  IF f.settled.st = "rejected"
        THEN [stack |-> Deliver(rest, f.settled), executed |-> executed,
              events |-> IF f.kind = "execute" THEN <<>>
                         ELSE <<Event("throw", f.node, f.settled.val, 0, TRUE)>>,
              done |-> IF rest = <<>> THEN f.settled ELSE Pending]
        ELSE IF f.pc = "awaitNode"
        THEN RunLoop(rest,
                     [f EXCEPT !.output = f.settled.val,
                               !.todo = OutgoingConnections(connections, f.node),
                               !.results = <<>>,
                               !.settled = Pending],
                     ids, executed, sig, st)
        ELSE RunLoop(rest,
                     [f EXCEPT !.results = Append(@, f.settled.val),
                               !.settled = Pending],
                     ids, executed, sig, st)

(***************************************************************************)
(* The graphs the caller builds: each is the list of its addNode and       *)
(* connect calls, in call order.                                           *)
(***************************************************************************)
AddAll(ids) == [i \in 1..Len(ids) |-> AddNodeOp(ids[i])]

Programs ==
    { <<>>,
      AddAll(<<"A">>),
      \* no start node: a self-edge, a two-cycle
      AddAll(<<"A">>) \o <<ConnectOp("A", "A", "none")>>,
      AddAll(<<"A", "B">>) \o <<ConnectOp("A", "B", "none"), ConnectOp("B", "A", "none")>>,
      \* chain
      AddAll(<<"A", "B", "C">>) \o <<ConnectOp("A", "B", "none"), ConnectOp("B", "C", "none")>>,
      \* fork on the route
      AddAll(<<"A", "B", "C">>) \o <<ConnectOp("A", "B", "b"), ConnectOp("A", "C", "c")>>,
      \* the last declared edge is conditional
      AddAll(<<"A", "B", "C">>) \o <<ConnectOp("A", "B", "none"), ConnectOp("A", "C", "c")>>,
      \* diamond
      AddAll(<<"A", "B", "C", "D">>) \o
          <<ConnectOp("A", "B", "none"), ConnectOp("A", "C", "none"),
            ConnectOp("B", "D", "none"), ConnectOp("C", "D", "none")>>,
      \* diamond with conditional edges
      AddAll(<<"A", "B", "C", "D">>) \o
          <<ConnectOp("A", "B", "b"), ConnectOp("A", "C", "none"),
            ConnectOp("B", "D", "none"), ConnectOp("C", "D", "c")>>,
      \* converging edges with a tail behind the shared node
      AddAll(<<"A", "B", "C", "D">>) \o
          <<ConnectOp("A", "B", "none"), ConnectOp("A", "C", "none"),
            ConnectOp("B", "C", "none"), ConnectOp("C", "D", "none")>>,
      \* an edge back to an ancestor, a self-edge below the start node
      AddAll(<<"A", "B", "C">>) \o
          <<ConnectOp("A", "B", "none"), ConnectOp("B", "C", "none"),
            ConnectOp("C", "B", "none")>>,
      AddAll(<<"A", "B">>) \o <<ConnectOp("A", "B", "none"), ConnectOp("B", "B", "b")>>,
      \* the same edge declared twice
      AddAll(<<"A", "B", "C">>) \o
          <<ConnectOp("A", "B", "none"), ConnectOp("B", "C", "none"),
            ConnectOp("A", "B", "none")>>,
      \* several start nodes
      AddAll(<<"B", "A">>),
      AddAll(<<"A", "B", "C", "D">>) \o
          <<ConnectOp("A", "C", "none"), ConnectOp("B", "D", "c")>>,
      AddAll(<<"A", "B", "C">>) \o <<ConnectOp("A", "C", "none"), ConnectOp("B", "C", "none")>>,
      \* an id registered again after it became the target of an edge
      AddAll(<<"A", "B", "C">>) \o
          <<ConnectOp("B", "A", "none"), ConnectOp("A", "C", "none"), AddNodeOp("A")>> }

(***************************************************************************)
(* Flow: the actions                                                       *)
(***************************************************************************)
IdleCall ==
    [phase |-> "idle", parallel |-> FALSE, optInput |-> Undefined, input |-> Undefined,
     ids |-> <<>>, result |-> Undefined, results |-> <<>>]

NoWrap == [pc |-> "off"]

\* no batch call is made
NoBatch == [phase |-> "off"]

\* private subscribers = new Map()
NoSubscribers == <<>>

\* the Flow is used without an ObservableFlow around it
NoObservable == [pc |-> "off"]

\* no RetryNode is constructed
NoRetryNode == [pc |-> "off"]

\* options.input || {}
EmptyObject == [kind |-> "value", by |-> "caller", data |-> "{}"]

Falsy(v) == v.kind \in {"undefined", "falsy"}

InputOrDefault(v) == IF Falsy(v) THEN EmptyObject ELSE v

Init ==
    /\ script \in Programs
    /\ nodes = {}
    /\ connections = <<>>
    /\ startNodes = <<>>
    /\ executedNodes = {}
    /\ abortSignal = "none"
    /\ aborted = FALSE
    /\ store = EmptyStore
    /\ call = IdleCall
    /\ tasks = <<>>
    /\ trace = <<>>
    /\ batch = NoBatch
    /\ subscribers = NoSubscribers
    /\ observable = NoObservable
    /\ retryNode = NoRetryNode
    /\ wrap = NoWrap

\* addNode(node)
AddNode(n) ==
    /\ script # <<>>
    /\ Head(script) = AddNodeOp(n)
    /\ script' = Tail(script)
    /\ nodes' = nodes \cup {n}
    /\ startNodes' = StartNodesAfterAdd(startNodes, n)
    /\ UNCHANGED <<connections, executedNodes, abortSignal, aborted, store, call,
                   tasks, trace, wrap, batch, subscribers, observable, retryNode>>

\* connect(from, to, {condition}) with both ids registered
Connect(from, to, cond) ==
    /\ script # <<>>
    /\ Head(script) = ConnectOp(from, to, cond)
    /\ from \in nodes
    /\ to \in nodes
    /\ script' = Tail(script)
    /\ connections' = Append(connections, [from |-> from, to |-> to, condition |-> cond])
    /\ startNodes' = StartNodesAfterConnect(startNodes, to)
    /\ UNCHANGED <<nodes, executedNodes, abortSignal, aborted, store, call, tasks,
                   trace, wrap, batch, subscribers, observable, retryNode>>

Settle(c, outcome) ==
    [c EXCEPT !.phase = outcome.st, !.result = outcome.val]

SettleEvent(outcome) == Event(outcome.st, "", outcome.val, 0, TRUE)

\* the executed marks of the previous call stay
ExecutedAtStartKept(executed) == executed

\* this.executedNodes.clear()
ExecutedAtStart(executed) == {}

\* the body of execute({input, parallel, abortSignal}), up to its first await;
\* c0 is the call record and tr the history it starts from
ExecuteFrom(c0, tr, par, sig, optInput) ==
    /\ abortSignal' = sig
    /\ LET input == InputOrDefault(optInput)
           ids   == StartNodeIds(startNodes)
           c     == [c0 EXCEPT !.phase = "running", !.parallel = par,
                               !.optInput = optInput, !.input = input, !.ids = ids]
           clean == ExecutedAtStart(executedNodes)
           how(i) == EnterKind(ids[i], sig, aborted, nodes,
                               clean \cup {ids[j] : j \in 1..(i - 1)})
           seq   == RunLoop(<<>>, ExecuteFrame(input, ids), ids, clean, sig, store)
       IN  IF NoNodes(nodes)
           THEN /\ call' = Settle(c, Resolved(input))
                /\ trace' = Append(tr, SettleEvent(Resolved(input)))
                /\ executedNodes' = clean
                /\ tasks' = <<>>
           ELSE IF NoStartNodes(startNodes)
           THEN /\ call' = Settle(c, Rejected(NoStartError))
                /\ trace' = Append(tr, SettleEvent(Rejected(NoStartError)))
                /\ executedNodes' = clean
                /\ tasks' = <<>>
           ELSE IF par
           THEN /\ tasks' = [i \in 1..Len(ids) |->
                               IF how(i) = "invoke" THEN <<NodeFrame(ids[i], input)>>
                               ELSE <<>>]
                /\ executedNodes' =
                       clean \cup {ids[i] : i \in {j \in 1..Len(ids) : how(j) = "invoke"}}
                /\ IF \E i \in 1..Len(ids) : how(i) \in {"abort", "missing"}
                   THEN /\ call' = Settle(c, Rejected(AbortError))
                        /\ trace' = tr \o [i \in 1..Len(ids) |->
                                                Event(how(i), ids[i], input, 0, TRUE)]
                                          \o <<SettleEvent(Rejected(AbortError))>>
                   ELSE /\ call' = c
                        /\ trace' = tr \o [i \in 1..Len(ids) |->
                                                Event(how(i), ids[i], input, 0, TRUE)]
           ELSE /\ tasks' = <<seq.stack>>
                /\ executedNodes' = seq.executed
                /\ call' = c
                /\ trace' = tr \o seq.events
    /\ UNCHANGED <<script, nodes, connections, startNodes, aborted, store, wrap,
                   subscribers, retryNode>>

\* the caller calls execute({input, parallel, abortSignal})
Execute(par, sig, optInput) ==
    /\ script = <<>>
    /\ call.phase = "idle"
    /\ batch = NoBatch
    /\ ExecuteFrom(call, trace, par, sig, optInput)
    /\ UNCHANGED <<batch, observable>>

\* the process function of the node on top of chain t settles, and Node.execute
\* records the outcome in the store and passes it on
ProcessSettles(t, r) ==
    /\ t \in 1..Len(tasks)
    /\ tasks[t] # <<>>
    /\ LET f == Last(tasks[t])
       IN  /\ f.pc = "awaitNode"
           /\ f.settled.st = "none"
           /\ IF r = "throw"
              THEN /\ store' = NodeExecuteFailure(store, f.node, Err(f.node))
                   /\ tasks' = [tasks EXCEPT ![t][Len(tasks[t])].settled =
                                                 Rejected(Err(f.node))]
                   /\ trace' = Append(trace, Event("error", f.node, Err(f.node), 0, TRUE))
              ELSE /\ store' = NodeExecuteSuccess(store, f.node, Out(f.node, r))
                   /\ tasks' = [tasks EXCEPT ![t][Len(tasks[t])].settled =
                                                 Resolved(Out(f.node, r))]
                   /\ trace' = Append(trace, Event("output", f.node, Out(f.node, r), 0, TRUE))
    /\ UNCHANGED <<script, nodes, connections, startNodes, executedNodes, abortSignal,
                   aborted, call, wrap, batch, subscribers, observable, retryNode>>

\* the top frame of chain t resumes: executeNode walks on, returns or throws
Resume(t) ==
    /\ t \in 1..Len(tasks)
    /\ tasks[t] # <<>>
    /\ Last(tasks[t]).settled.st # "none"
    /\ LET r == ResumeStep(tasks[t], call.ids, executedNodes, abortSignal, store)
           ends == /\ r.done.st # "none"
                   /\ call.phase = "running"
                   /\ (~call.parallel \/ r.done.st = "rejected")
       IN  /\ tasks' = [tasks EXCEPT ![t] = r.stack]
           /\ executedNodes' = r.executed
           /\ call' = IF ends THEN Settle(call, r.done) ELSE call
           /\ trace' = trace \o r.events \o
                       (IF ends THEN <<SettleEvent(r.done)>> ELSE <<>>)
    /\ UNCHANGED <<script, nodes, connections, startNodes, abortSignal, aborted, store,
                   wrap, batch, subscribers, observable, retryNode>>

\* startNodeIds.map((nodeId) => store.get(`node:${nodeId}:output`))
ParallelResult(ids, st) == [i \in 1..Len(ids) |-> StoreGet(st, OutputKey(ids[i]))]

\* a parallel execute resumes after Promise.all and reads the outputs
Join ==
    /\ call.phase = "running"
    /\ call.parallel
    /\ \A t \in 1..Len(tasks) : tasks[t] = <<>>
    /\ LET out == ParallelResult(call.ids, store)
       IN  /\ call' = [call EXCEPT !.phase = "resolved", !.results = out]
           /\ trace' = Append(trace, Event("resolved", "", Undefined, 0, TRUE))
    /\ UNCHANGED <<script, nodes, connections, startNodes, executedNodes, abortSignal,
                   aborted, store, tasks, wrap, batch, subscribers, observable, retryNode>>

\* the caller triggers the abort signal
Abort ==
    /\ ~aborted
    /\ script = <<>>
    /\ \/ call.phase = "idle"
       \/ abortSignal = "s" /\ \E t \in 1..Len(tasks) : tasks[t] # <<>>
    /\ wrap = NoWrap
    /\ aborted' = TRUE
    /\ trace' = Append(trace, Event("aborted", "", Undefined, 0, TRUE))
    /\ UNCHANGED <<script, nodes, connections, startNodes, executedNodes, abortSignal,
                   store, call, tasks, wrap, batch, subscribers, observable, retryNode>>

Next ==
    \/ \E n \in Nodes : AddNode(n)
    \/ \E from \in Nodes, to \in Nodes, cond \in CondKinds : Connect(from, to, cond)
    \/ \E par \in BOOLEAN, sig \in {"none", "s"}, input \in Inputs : Execute(par, sig, input)
    \/ \E t \in 1..Len(tasks), r \in Routes \cup {"throw"} : ProcessSettles(t, r)
    \/ \E t \in 1..Len(tasks) : Resume(t)
    \/ Join
    \/ Abort

Spec == Init /\ [][Next]_vars

(***************************************************************************)
(* Reading the history                                                     *)
(***************************************************************************)
Idx == 1..Len(trace)

Is(i, ev) == trace[i].ev = ev

IsOf(i, ev, n) == trace[i].ev = ev /\ trace[i].node = n

Invocations(n) == {i \in Idx : IsOf(i, "invoke", n)}

Happened(ev) == \E i \in Idx : Is(i, ev)

\* the value the process function of n returned, once it has
HasOutput(n) == \E i \in Idx : IsOf(i, "output", n)

OutputOf(n) == trace[CHOOSE i \in Idx : IsOf(i, "output", n)].val

\* the fired edges of n among the first i events
FiredBy(n, i) == {j \in 1..i : IsOf(j, "eval", n) /\ trace[j].flag}

Max(S) == CHOOSE x \in S : \A y \in S : y <= x

Settled == call.phase \in {"resolved", "rejected"}

Quiet == \A t \in 1..Len(tasks) : tasks[t] = <<>>

C2_AsStated ==
    ~call.parallel =>
    \A i \in Idx : Is(i, "return") =>
        LET n == trace[i].node
            fired == FiredBy(n, i)
        IN  IF fired = {} THEN trace[i].val = OutputOf(n)
            ELSE LET t == connections[trace[Max(fired)].edge].to
                 IN  \A k \in Idx : IsOf(k, "return", t) => trace[i].val = trace[k].val

(***************************************************************************)
(* C2 amended. The value executeNode returns for a node it invokes is the  *)
(* node's own output if no outgoing edge fired, and otherwise the value    *)
(* the executeNode call made for the last fired edge returned: the         *)
(* target's traversal result if that call invoked the target, and what the *)
(* store held at node:<target>:output at the time of the call (the         *)
(* target's own output, or undefined when none was recorded) if the target *)
(* was already marked executed.                                            *)
(***************************************************************************)
C2_LastFiredCall ==
    \A i \in Idx : Is(i, "return") =>
        LET n == trace[i].node
            fired == FiredBy(n, i)
        IN  IF fired = {} THEN trace[i].val = OutputOf(n)
            ELSE LET j == Max(fired)
                     c == trace[j + 1]
                     t == connections[trace[j].edge].to
                 IN  /\ c.node = t
                     /\ c.ev \in {"invoke", "skip"}
                     /\ c.ev = "invoke" =>
                            \E k \in (j + 1)..i : /\ IsOf(k, "return", t)
                                                  /\ trace[k].val = trace[i].val
                     /\ c.ev = "skip" =>
                            trace[i].val =
                                IF \E k \in 1..j : IsOf(k, "output", t)
                                THEN OutputOf(t) ELSE Undefined

\* A returned C's own output, taken from the store, while C, invoked under B,
\* returned D's output; and a node with two fired edges returned the second
C2_Witness ==
    /\ call.phase = "resolved"
    /\ \E i, k \in Idx : /\ IsOf(i, "return", "A") /\ trace[i].val.by = "C"
                         /\ IsOf(k, "return", "C") /\ trace[k].val.by = "D"
                         /\ Cardinality(FiredBy("A", i)) = 2

(***************************************************************************)
(* C3. A sequential execute on a Flow with several start nodes resolves to *)
(* the traversal result of the last start node in registration order.      *)
(***************************************************************************)
C3_LastStartNode ==
    (call.phase = "resolved" /\ ~call.parallel /\ Len(call.ids) > 0) =>
        \E i \in Idx : /\ IsOf(i, "return", Last(call.ids))
                       /\ call.result = trace[i].val

(***************************************************************************)
(* C4. After node N produced output o, an edge N->T is followed if and     *)
(* only if it has no condition or its condition is true of o; when         *)
(* followed, executeNode is called for T with o as input. Every node that  *)
(* is invoked is a start node handed the caller's input or the target of a *)
(* fired edge handed the source's output, so a non-start node none of      *)
(* whose incoming edges fires is never invoked.                            *)
(***************************************************************************)
C4_EdgeFiring ==
    /\ \A i \in Idx : Is(i, "eval") =>
           LET conn == connections[trace[i].edge]
           IN  /\ conn.from = trace[i].node
               /\ trace[i].val = OutputOf(conn.from)
               /\ trace[i].flag <=> (conn.condition = "none"
                                      \/ trace[i].val.data = conn.condition)
               /\ trace[i].flag =>
                      /\ i < Len(trace)
                      /\ trace[i + 1].ev \in {"invoke", "skip", "abort"}
                      /\ trace[i + 1].node = conn.to
                      /\ trace[i + 1].val = trace[i].val
    /\ \A i \in Idx : Is(i, "invoke") =>
           IF trace[i].flag
           THEN trace[i].node \in Range(startNodes) /\ trace[i].val = call.input
           ELSE /\ i > 1
                /\ Is(i - 1, "eval")
                /\ trace[i - 1].flag
                /\ connections[trace[i - 1].edge].to = trace[i].node
                /\ trace[i].val = OutputOf(connections[trace[i - 1].edge].from)
    /\ \A n \in Nodes :
           (Invocations(n) # {} /\ n \notin Range(startNodes)) =>
               \E j \in Idx : /\ Is(j, "eval") /\ trace[j].flag
                              /\ connections[trace[j].edge].to = n

\* A->B on route b, A->C on route c, A answered b: B ran, C never did
C4_Witness ==
    /\ call.phase = "resolved"
    /\ Len(connections) = 2
    /\ connections[1].condition = "b"
    /\ connections[2].condition = "c"
    /\ HasOutput("A") /\ OutputOf("A").data = "b"
    /\ Invocations("B") # {}
    /\ Invocations("C") = {}

(***************************************************************************)
(* C5. Node.execute: when the process function returns r, the store holds  *)
(* r at node:<id>:output when execute resolves, and execute resolves to r; *)
(* when it throws e, the store holds e at node:<id>:error before the       *)
(* failure reaches the caller, and execute rejects with the same e.        *)
(***************************************************************************)
C5_NodeExecute ==
    \A t \in 1..Len(tasks) : \A d \in 1..Len(tasks[t]) :
        LET f == tasks[t][d]
        IN  (f.pc = "awaitNode" /\ f.settled.st # "none") =>
                LET i == Max({j \in Idx : trace[j].node = f.node
                                          /\ trace[j].ev \in {"output", "error"}})
                IN  /\ f.settled.val = trace[i].val
                    /\ Is(i, "output") =>
                           /\ f.settled.st = "resolved"
                           /\ StoreHas(store, OutputKey(f.node))
                           /\ store[OutputKey(f.node)] = trace[i].val
                    /\ Is(i, "error") =>
                           /\ f.settled.st = "rejected"
                           /\ StoreHas(store, ErrorKey(f.node))
                           /\ store[ErrorKey(f.node)] = trace[i].val

\* Node.execute of B has just rejected; its caller has not resumed yet
C5_Witness ==
    \E t \in 1..Len(tasks) :
        /\ tasks[t] # <<>>
        /\ Last(tasks[t]).pc = "awaitNode"
        /\ Last(tasks[t]).node = "B"
        /\ Last(tasks[t]).settled = Rejected(Err("B"))
        /\ StoreGet(store, ErrorKey("B")) = Err("B")
        /\ StoreGet(store, OutputKey("A")) = Out("A", "b")

(***************************************************************************)
(* C6. In a sequential execute, when the process function of a node throws *)
(* e, the call rejects with that same e; no outgoing edge of the failed    *)
(* node is evaluated, nothing later in the traversal order is evaluated or *)
(* invoked, and every output recorded before the failure is still in the   *)
(* store.                                                                  *)
(***************************************************************************)
C6_FailureEndsTraversal ==
    ~call.parallel =>
        \A i \in Idx : Is(i, "error") =>
            /\ \A j \in Idx : ~IsOf(j, "eval", trace[i].node)
            /\ \A j \in (i + 1)..Len(trace) :
                   trace[j].ev \notin {"invoke", "skip", "eval", "output", "return"}
            /\ call.phase # "resolved"
            /\ Quiet => call.phase = "rejected"
            /\ call.phase = "rejected" => call.result = trace[i].val
            /\ \A j \in 1..i : Is(j, "output") =>
                   /\ StoreHas(store, OutputKey(trace[j].node))
                   /\ store[OutputKey(trace[j].node)] = trace[j].val

\* chain A->B->C: B threw, the call rejected with B's error, C never ran
C6_Witness ==
    /\ ~call.parallel
    /\ call.phase = "rejected"
    /\ call.result = Err("B")
    /\ connections = <<[from |-> "A", to |-> "B", condition |-> "none"],
                       [from |-> "B", to |-> "C", condition |-> "none"]>>
    /\ StoreGet(store, OutputKey("A")) = Out("A", "c")
    /\ Invocations("C") = {}

(***************************************************************************)
(* C7. execute on a Flow with at least one registered node and an empty    *)
(* start set fails with the structural error; no process function is       *)
(* invoked and the store is not written.                                   *)
(***************************************************************************)
C7_NoStartNode ==
    (Cardinality(nodes) > 0 /\ Len(startNodes) = 0 /\ call.phase # "idle") =>
        /\ call.phase = "rejected"
        /\ call.result = NoStartError
        /\ \A n \in Nodes : Invocations(n) = {}
        /\ store = EmptyStore
        /\ Quiet

\* A->B and B->A: the call was made and rejected
C7_Witness ==
    /\ nodes = {"A", "B"}
    /\ Len(connections) = 2
    /\ startNodes = <<>>
    /\ call.phase = "rejected"

(***************************************************************************)
(* C8 as stated, its last part: once a node boundary has failed with the   *)
(* cancellation error, the execute call rejects with the cancellation      *)
(* error.                                                                  *)
(***************************************************************************)
C8_AsStated ==
    (Happened("abort") /\ Settled) =>
        call.phase = "rejected" /\ call.result = AbortError

(***************************************************************************)
(* C8 amended. Once the abort signal given to execute is triggered, no     *)
(* process function is started afterwards in that traversal: every later   *)
(* node boundary fails with the cancellation error, without invoking the   *)
(* node and without any output or error being recorded for a node that was *)
(* never invoked. A node in flight when the signal fires still records its *)
(* output. A sequential execute then rejects with the cancellation error;  *)
(* a parallel execute rejects with the cancellation error unless the       *)
(* traversal of another start node fails first, in which case it rejects   *)
(* with that node's error; it never resolves.                              *)
(***************************************************************************)
C8_Cancellation ==
    /\ abortSignal = "s" =>
           \A i \in Idx : Is(i, "aborted") =>
               \A j \in (i + 1)..Len(trace) : trace[j].ev \notin {"invoke", "skip"}
    /\ \A i \in Idx : Is(i, "abort") =>
           /\ abortSignal = "s"
           /\ \E j \in 1..i : Is(j, "aborted")
    /\ \A n \in Nodes : Invocations(n) = {} =>
           ~StoreHas(store, OutputKey(n)) /\ ~StoreHas(store, ErrorKey(n))
    /\ \A i \in Idx : Is(i, "output") =>
           StoreGet(store, OutputKey(trace[i].node)) = trace[i].val
    /\ Happened("abort") =>
           /\ call.phase # "resolved"
           /\ (Quiet /\ ~call.parallel) => call.phase = "rejected"
           /\ call.phase = "rejected" =>
                  \/ call.result = AbortError
                  \/ /\ call.parallel
                     /\ \E i \in Idx : Is(i, "error") /\ call.result = trace[i].val

\* the signal fired while A was in flight; A still recorded its output, the
\* boundary of B failed, B never ran and the call rejected with the
\* cancellation error
C8_Witness ==
    /\ call.phase = "rejected"
    /\ call.result = AbortError
    /\ \E i, j, k \in Idx : /\ i < j /\ j < k
                            /\ IsOf(i, "invoke", "A")
                            /\ Is(j, "aborted")
                            /\ IsOf(k, "output", "A")
    /\ \E i \in Idx : IsOf(i, "abort", "B")
    /\ Invocations("B") = {}
    /\ StoreHas(store, OutputKey("A"))
    /\ ~StoreHas(store, OutputKey("B"))

(***************************************************************************)
(* ErrorRecoveryUtils: one wrapper node around the node "N", called        *)
(* directly, one call after the other. The history is that of the latest   *)
(* call: it starts afresh when the wrapper is called.                      *)
(***************************************************************************)
MaxCalls == 2

MaxRetriesBound == 2

Inner == "N"

RetryId == "N_with_retry"

TimeoutId == "N_with_timeout"

\* what the process function of the wrapped node may throw
InnerErrors == {"t1", "t2", "fatal"}

InnerErr(m) == [kind |-> "error", by |-> Inner, data |-> m]

\* shouldRetry: the default () => true, or (e) => e.message !== 'fatal'
ShouldRetryKinds == {"always", "notFatal"}

ShouldRetry(kind, e) == kind = "always" \/ e.data # "fatal"

\* the attempt counter kept by the wrapper across calls
FirstAttemptCarried(previous) == IF previous = 0 THEN 1 ELSE previous

\* for (let attempt = 1; ...
FirstAttempt(previous) == 1

\* ... attempt <= maxRetries + 1; ...
LoopContinues(attempt, maxRetries) == attempt <= maxRetries + 1

\* the last retry is not made
GivesUpEarly(attempt, maxRetries, kind, e) ==
    attempt >= maxRetries \/ ~ShouldRetry(kind, e)

\* if (attempt > maxRetries || !shouldRetry(error)) throw error
GivesUp(attempt, maxRetries, kind, e) ==
    attempt > maxRetries \/ ~ShouldRetry(kind, e)

\* withRetry: the loop head; it calls originalNode.execute or falls out
RetryLoopHead(w, attempt) ==
    IF LoopContinues(attempt, w.maxRetries)
    THEN [w EXCEPT !.pc = "awaitAttempt", !.attempt = attempt, !.settled = Pending]
    ELSE [w EXCEPT !.pc = "processSettled", !.attempt = attempt,
                   !.settled = Rejected(w.lastError)]

RetryLoopEvents(w, attempt) ==
    IF LoopContinues(attempt, w.maxRetries)
    THEN <<Event("invoke", Inner, w.input, w.calls + 1, FALSE)>>
    ELSE <<>>

InitRetry ==
    /\ script = <<>>
    /\ nodes = {}
    /\ connections = <<>>
    /\ startNodes = <<>>
    /\ executedNodes = {}
    /\ abortSignal = "none"
    /\ aborted = FALSE
    /\ store = EmptyStore
    /\ call = IdleCall
    /\ tasks = <<>>
    /\ trace = <<>>
    /\ batch = NoBatch
    /\ subscribers = NoSubscribers
    /\ observable = NoObservable
    /\ retryNode = NoRetryNode
    /\ \E m \in 0..MaxRetriesBound, k \in ShouldRetryKinds :
           wrap = [kind |-> "retry", pc |-> "idle", id |-> RetryId, maxRetries |-> m,
                   shouldRetry |-> k, attempt |-> 0, lastError |-> Undefined,
                   settled |-> Pending, input |-> Undefined, calls |-> 0]

flowVars == <<script, nodes, connections, startNodes, executedNodes, abortSignal,
              aborted, call, tasks, batch, subscribers, observable, retryNode>>

\* execute(input, store) of the node made by withRetry, up to its first await
RetryCall(input) ==
    /\ wrap.kind = "retry"
    /\ wrap.pc \in {"idle", "done"}
    /\ wrap.calls < MaxCalls
    /\ LET w == [wrap EXCEPT !.input = input, !.lastError = Undefined]
           a == FirstAttempt(wrap.attempt)
       IN  /\ wrap' = RetryLoopHead(w, a)
           /\ trace' = <<Event("wcall", RetryId, input, wrap.calls + 1, TRUE)>>
                       \o RetryLoopEvents(w, a)
    /\ UNCHANGED <<flowVars, store>>

\* the process function of the wrapped node settles; its Node.execute records
RetryAttemptSettles(ok, v) ==
    /\ wrap.kind = "retry"
    /\ wrap.pc = "awaitAttempt"
    /\ IF ok
       THEN /\ store' = NodeExecuteSuccess(store, Inner, Out(Inner, v))
            /\ wrap' = [wrap EXCEPT !.pc = "attemptSettled",
                                    !.settled = Resolved(Out(Inner, v))]
            /\ trace' = Append(trace, Event("output", Inner, Out(Inner, v),
                                            wrap.calls + 1, TRUE))
       ELSE /\ store' = NodeExecuteFailure(store, Inner, InnerErr(v))
            /\ wrap' = [wrap EXCEPT !.pc = "attemptSettled",
                                    !.settled = Rejected(InnerErr(v))]
            /\ trace' = Append(trace, Event("error", Inner, InnerErr(v),
                                            wrap.calls + 1, TRUE))
    /\ UNCHANGED flowVars

\* withRetry resumes after await originalNode.execute: return, throw or wait
RetryResume ==
    /\ wrap.kind = "retry"
    /\ wrap.pc = "attemptSettled"
    /\ wrap' = IF wrap.settled.st = "resolved"
               THEN [wrap EXCEPT !.pc = "processSettled"]
               ELSE IF GivesUp(wrap.attempt, wrap.maxRetries, wrap.shouldRetry,
                               wrap.settled.val)
               THEN [wrap EXCEPT !.pc = "processSettled",
                                 !.lastError = wrap.settled.val]
               ELSE [wrap EXCEPT !.pc = "delay", !.lastError = wrap.settled.val,
                                 !.settled = Pending]
    /\ UNCHANGED <<flowVars, store, trace>>

\* the delay between two attempts is over: attempt++ and the loop head
RetryDelayElapses ==
    /\ wrap.kind = "retry"
    /\ wrap.pc = "delay"
    /\ wrap' = RetryLoopHead(wrap, wrap.attempt + 1)
    /\ trace' = trace \o RetryLoopEvents(wrap, wrap.attempt + 1)
    /\ UNCHANGED <<flowVars, store>>

\* Node.execute of the wrapper node: its process function has settled
WrapperSettles ==
    /\ wrap.kind \in {"retry", "timeout"}
    /\ wrap.pc = "processSettled"
    /\ store' = IF wrap.settled.st = "resolved"
                THEN NodeExecuteSuccess(store, wrap.id, wrap.settled.val)
                ELSE NodeExecuteFailure(store, wrap.id, wrap.settled.val)
    /\ wrap' = [wrap EXCEPT !.pc = "done", !.calls = @ + 1]
    /\ trace' = Append(trace, Event(IF wrap.settled.st = "resolved" THEN "wresolved"
                                    ELSE "wrejected",
                                    wrap.id, wrap.settled.val, wrap.calls + 1, TRUE))
    /\ UNCHANGED flowVars

NextRetry ==
    \/ \E input \in Inputs : RetryCall(input)
    \/ \E v \in Routes : RetryAttemptSettles(TRUE, v)
    \/ \E m \in InnerErrors : RetryAttemptSettles(FALSE, m)
    \/ RetryResume
    \/ RetryDelayElapses
    \/ WrapperSettles

SpecRetry == InitRetry /\ [][NextRetry]_vars

(***************************************************************************)
(* Reading the history of wrapper calls: call c of the wrapper             *)
(***************************************************************************)
CallNos == 1..MaxCalls

\* the call the history is about
ThisCall == IF wrap.pc = "done" THEN wrap.calls ELSE wrap.calls + 1

\* the invocations of the wrapped node's process function made by call c
Attempts(c) == {i \in Idx : IsOf(i, "invoke", Inner) /\ trace[i].edge = c}

\* how they ended
AttemptResults(c) ==
    {i \in Idx : trace[i].node = Inner /\ trace[i].edge = c
                 /\ trace[i].ev \in {"output", "error"}}

\* how call c ended
WrapperResults(c) ==
    {i \in Idx : trace[i].edge = c /\ trace[i].ev \in {"wresolved", "wrejected"}}

Retryable(e) == wrap.shouldRetry = "always" \/ e.data # "fatal"

(***************************************************************************)
(* C9. In every call of a node made by withRetry, whatever the earlier     *)
(* calls of the same wrapper did, the wrapped node is invoked again and    *)
(* again until an invocation succeeds (the wrapper resolves to its         *)
(* result), or fails with an error shouldRetry refuses (the wrapper        *)
(* rejects with that error), or maxRetries + 1 invocations have failed     *)
(* (the wrapper rejects with the last error); never more than              *)
(* maxRetries + 1 invocations in one call.                                 *)
(***************************************************************************)
C9_Retry ==
    wrap.kind = "retry" =>
    LET c == ThisCall
    IN  /\ Cardinality(Attempts(c)) <= wrap.maxRetries + 1
        \* an attempt is followed by another one only if it failed retryably
        /\ \A i \in AttemptResults(c) :
               (\E j \in Attempts(c) : j > i) =>
                   Is(i, "error") /\ Retryable(trace[i].val)
        \* the call ends with the outcome of its last attempt, and only for
        \* one of the three reasons
        /\ \A s \in WrapperResults(c) :
               /\ AttemptResults(c) # {}
               /\ LET last == Max(AttemptResults(c))
                  IN  /\ last < s
                      /\ trace[s].val = trace[last].val
                      /\ Is(s, "wresolved") <=> Is(last, "output")
                      /\ Is(s, "wrejected") <=> Is(last, "error")
                      /\ Is(last, "error") =>
                             \/ ~Retryable(trace[last].val)
                             \/ Cardinality(Attempts(c)) = wrap.maxRetries + 1
               /\ Cardinality(Attempts(c)) = Cardinality(AttemptResults(c))

\* maxRetries 2: the second call of the wrapper, made after a call that left an
\* error of the wrapped node in the store, used its three attempts and rejected
\* with the error of its third attempt
C9_Witness ==
    /\ wrap.kind = "retry"
    /\ wrap.maxRetries = 2
    /\ wrap.pc = "done"
    /\ wrap.calls = 2
    /\ trace[1].edge = 2
    /\ Cardinality(Attempts(2)) = 3
    /\ \E s \in WrapperResults(2) : Is(s, "wrejected") /\ trace[s].val = InnerErr("t2")
    /\ \E i \in AttemptResults(2) : trace[i].val = InnerErr("t1")

(***************************************************************************)
(* withTimeout: every call arms its own timer and starts the wrapped node; *)
(* neither is cancelled when the other wins the race.                      *)
(***************************************************************************)
\* new Error(`Node execution timed out after ${timeoutMs}ms`)
TimeoutError ==
    [kind |-> "error", by |-> "timer", data |-> "Node execution timed out after 10ms"]

\* what the wrapped node may throw under withTimeout: Errors with these
\* messages, or a value that is not an Error and has no message (throw 'oops')
TimeoutInnerErrors == {"x", "upstream timed out", "nonError"}

InnerThrown(m) ==
    IF m = "nonError" THEN [kind |-> "thrown", by |-> Inner, data |-> "oops"]
    ELSE InnerErr(m)

\* error.message is a string
HasMessage(e) == e.kind = "error"

\* what error.message.includes throws when error.message is undefined
MessageTypeError ==
    [kind |-> "error", by |-> "runtime",
     data |-> "Cannot read properties of undefined (reading 'includes')"]

\* no error is taken for the timeout
IsTimeoutErrorNever(e) == FALSE

\* error.message.includes('timed out')
IsTimeoutError(e) ==
    e.data \in {"Node execution timed out after 10ms", "upstream timed out"}

FallbackValue == [kind |-> "value", by |-> "fallback", data |-> "b"]

FallbackError == [kind |-> "error", by |-> "fallback", data |-> "x"]

InitTimeout ==
    /\ script = <<>>
    /\ nodes = {}
    /\ connections = <<>>
    /\ startNodes = <<>>
    /\ executedNodes = {}
    /\ abortSignal = "none"
    /\ aborted = FALSE
    /\ store = EmptyStore
    /\ call = IdleCall
    /\ tasks = <<>>
    /\ trace = <<>>
    /\ batch = NoBatch
    /\ subscribers = NoSubscribers
    /\ observable = NoObservable
    /\ retryNode = NoRetryNode
    /\ wrap = [kind |-> "timeout", pc |-> "idle", id |-> TimeoutId,
               settled |-> Pending, input |-> Undefined, calls |-> 0,
               timers |-> <<>>, inners |-> <<>>]

\* execute(input, store) of the node made by withTimeout, up to its await:
\* setTimeout, originalNode.execute, Promise.race
TimeoutCall(input) ==
    /\ wrap.kind = "timeout"
    /\ wrap.pc \in {"idle", "done"}
    /\ wrap.calls < MaxCalls
    /\ wrap' = [wrap EXCEPT !.pc = "racing", !.input = input, !.settled = Pending,
                            !.timers = Append(@, "armed"),
                            !.inners = Append(@, "inflight")]
    /\ trace' = <<Event("wcall", TimeoutId, input, wrap.calls + 1, TRUE),
                  Event("invoke", Inner, input, wrap.calls + 1, FALSE)>>
    /\ UNCHANGED <<flowVars, store>>

\* the wrapped node's process function, started by call c, settles; its
\* Node.execute records the outcome; the race of call c ends if still open
InnerSettles(c, ok, v) ==
    /\ wrap.kind = "timeout"
    /\ c \in 1..Len(wrap.inners)
    /\ wrap.inners[c] = "inflight"
    /\ LET val == IF ok THEN Out(Inner, v) ELSE InnerThrown(v)
           out == IF ok THEN Resolved(val) ELSE Rejected(val)
           open == c = wrap.calls + 1 /\ wrap.pc = "racing"
       IN  /\ store' = IF ok THEN NodeExecuteSuccess(store, Inner, val)
                       ELSE NodeExecuteFailure(store, Inner, val)
           /\ wrap' = IF open
                      THEN [wrap EXCEPT !.inners[c] = "settled", !.pc = "raceSettled",
                                        !.settled = out]
                      ELSE [wrap EXCEPT !.inners[c] = "settled"]
           /\ trace' = Append(trace, Event(IF ok THEN "output" ELSE "error", Inner, val,
                                           c, open))
    /\ UNCHANGED flowVars

\* the timer of call c fires: reject(new Error(...timed out...))
TimerFires(c) ==
    /\ wrap.kind = "timeout"
    /\ c \in 1..Len(wrap.timers)
    /\ wrap.timers[c] = "armed"
    /\ LET open == c = wrap.calls + 1 /\ wrap.pc = "racing"
       IN  /\ wrap' = IF open
                      THEN [wrap EXCEPT !.timers[c] = "fired", !.pc = "raceSettled",
                                        !.settled = Rejected(TimeoutError)]
                      ELSE [wrap EXCEPT !.timers[c] = "fired"]
           /\ trace' = Append(trace, Event("timer", TimeoutId, TimeoutError, c, open))
    /\ UNCHANGED <<flowVars, store>>

\* withTimeout resumes after await Promise.race: return, fall back or rethrow
TimeoutResume ==
    /\ wrap.kind = "timeout"
    /\ wrap.pc = "raceSettled"
    /\ IF wrap.settled.st = "resolved"
       THEN /\ wrap' = [wrap EXCEPT !.pc = "processSettled"]
            /\ trace' = trace
       ELSE IF ~HasMessage(wrap.settled.val)
       THEN /\ wrap' = [wrap EXCEPT !.pc = "processSettled",
                                    !.settled = Rejected(MessageTypeError)]
            /\ trace' = trace
       ELSE IF IsTimeoutError(wrap.settled.val)
       THEN /\ wrap' = [wrap EXCEPT !.pc = "awaitFallback", !.settled = Pending]
            /\ trace' = Append(trace, Event("fallback", TimeoutId, wrap.input,
                                            wrap.calls + 1, TRUE))
       ELSE /\ wrap' = [wrap EXCEPT !.pc = "processSettled"]
            /\ trace' = trace
    /\ UNCHANGED <<flowVars, store>>

\* timeoutFn(input, store) returns or throws
FallbackSettles(ok) ==
    /\ wrap.kind = "timeout"
    /\ wrap.pc = "awaitFallback"
    /\ wrap' = [wrap EXCEPT !.pc = "processSettled",
                            !.settled = IF ok THEN Resolved(FallbackValue)
                                        ELSE Rejected(FallbackError)]
    /\ trace' = Append(trace, Event(IF ok THEN "fbvalue" ELSE "fberror", TimeoutId,
                                    IF ok THEN FallbackValue ELSE FallbackError,
                                    wrap.calls + 1, TRUE))
    /\ UNCHANGED <<flowVars, store>>

NextTimeout ==
    \/ \E input \in Inputs : TimeoutCall(input)
    \/ \E c \in CallNos, v \in Routes : InnerSettles(c, TRUE, v)
    \/ \E c \in CallNos, m \in TimeoutInnerErrors : InnerSettles(c, FALSE, m)
    \/ \E c \in CallNos : TimerFires(c)
    \/ TimeoutResume
    \/ \E ok \in BOOLEAN : FallbackSettles(ok)
    \/ WrapperSettles

SpecTimeout == InitTimeout /\ [][NextTimeout]_vars

\* timers fire, continuations run and the fallback function settles; the
\* wrapped node need not ever settle
SpecTimeoutFair ==
    /\ SpecTimeout
    /\ \A c \in CallNos : WF_vars(TimerFires(c))
    /\ WF_vars(TimeoutResume)
    /\ WF_vars(\E ok \in BOOLEAN : FallbackSettles(ok))
    /\ WF_vars(WrapperSettles)

(***************************************************************************)
(* Reading the history of call c of the withTimeout wrapper                *)
(***************************************************************************)
InputOfCall(c) == trace[CHOOSE i \in Idx : Is(i, "wcall") /\ trace[i].edge = c].val

InnerSettled(c) == {i \in Idx : trace[i].node = Inner /\ trace[i].edge = c
                                /\ trace[i].ev \in {"output", "error"}}

TimerFired(c) == {i \in Idx : Is(i, "timer") /\ trace[i].edge = c}

\* the timer of call c fired while the wrapped node had not settled
TimerWon(c) == \E i \in TimerFired(c) : \A j \in InnerSettled(c) : i < j

\* the wrapped node resolved before the timer of call c fired
NodeResolvedFirst(c) ==
    \E j \in InnerSettled(c) : Is(j, "output") /\ \A i \in TimerFired(c) : j < i

Fallbacks(c) == {i \in Idx : Is(i, "fallback") /\ trace[i].edge = c}

FallbackResults(c) == {i \in Idx : trace[i].ev \in {"fbvalue", "fberror"}
                                   /\ trace[i].edge = c}

C10_Safety ==
    wrap.kind = "timeout" =>
    LET c == ThisCall
    IN  /\ Cardinality(Fallbacks(c)) <= 1
        /\ TimerWon(c) =>
               /\ \A i \in Fallbacks(c) : trace[i].val = InputOfCall(c)
               /\ (wrap.calls >= c \/ wrap.pc \in {"awaitFallback", "processSettled"})
                      => Cardinality(Fallbacks(c)) = 1
               /\ \A s \in WrapperResults(c) :
                      \E f \in FallbackResults(c) :
                          /\ f < s
                          /\ trace[s].val = trace[f].val
                          /\ Is(s, "wresolved") <=> Is(f, "fbvalue")
        /\ NodeResolvedFirst(c) =>
               /\ Fallbacks(c) = {}
               /\ \A s \in WrapperResults(c) :
                      /\ Is(s, "wresolved")
                      /\ trace[s].val = trace[Max({j \in InnerSettled(c) : j < s})].val

(***************************************************************************)
(* C10. For a node made by withTimeout: if the wrapped node has not        *)
(* settled when the timer fires, the wrapper invokes                       *)
(* timeoutFallback(input, store) exactly once and resolves to its result   *)
(* (it rejects only if the fallback throws); if the wrapped node resolves  *)
(* to v before the timer fires, the wrapper resolves to v and the fallback *)
(* is never invoked. Every call ends, so a wrapped node that never         *)
(* resolves always yields the fallback.                                    *)
(***************************************************************************)
C10_Timeout ==
    /\ []C10_Safety
    /\ (wrap.pc = "racing") ~> (wrap.pc = "done")

\* the wrapped node never settled: the timer fired, the fallback was invoked
\* once and the wrapper resolved to the fallback's value
C10_Witness ==
    /\ wrap.kind = "timeout"
    /\ wrap.pc = "done"
    /\ wrap.calls = 1
    /\ wrap.inners[1] = "inflight"
    /\ InnerSettled(1) = {}
    /\ TimerWon(1)
    /\ Cardinality(Fallbacks(1)) = 1
    /\ \E s \in WrapperResults(1) : Is(s, "wresolved") /\ trace[s].val = FallbackValue
    /\ StoreGet(store, OutputKey(TimeoutId)) = FallbackValue

(***************************************************************************)
(* C11. For a node made by withTimeout: whenever the wrapped node itself   *)
(* throws e before the timer fires, whatever the message or shape of e,    *)
(* the wrapper rejects with that same e and timeoutFallback is not         *)
(* invoked.                                                                *)
(***************************************************************************)
C11_OwnErrorPropagates ==
    wrap.kind = "timeout" =>
    LET c == ThisCall
    IN  \A j \in InnerSettled(c) :
            (Is(j, "error") /\ trace[j].flag) =>
                /\ Fallbacks(c) = {}
                /\ \A s \in WrapperResults(c) :
                       Is(s, "wrejected") /\ trace[s].val = trace[j].val

(***************************************************************************)
(* withFallback: the wrapper node stands in a Flow,                        *)
(*     A -> N_with_fallback,                                               *)
(*     N_with_fallback -> C if route b,  N_with_fallback -> D if route c,  *)
(* and the Flow is executed once. The wrapper's process function calls     *)
(* originalNode.execute in the same synchronous section in which           *)
(* executeNode invokes the wrapper.                                        *)
(***************************************************************************)
FallbackId == "N_with_fallback"

FallbackNodes == {"A", FallbackId, "C", "D"}

FallbackConnections ==
    <<[from |-> "A", to |-> FallbackId, condition |-> "none"],
      [from |-> FallbackId, to |-> "C", condition |-> "b"],
      [from |-> FallbackId, to |-> "D", condition |-> "c"]>>

\* what the wrapped node may throw under withFallback
FallbackInnerErrors == {"x", "upstream timed out"}

\* the catch clause lets every error through
FallbackCatchesNothing(e) == FALSE

\* catch (error): any error of the wrapped node
FallbackCatches(e) == TRUE

InitFallback ==
    /\ script = <<>>
    /\ nodes = FallbackNodes
    /\ connections = FallbackConnections
    /\ startNodes = <<"A">>
    /\ executedNodes = {}
    /\ abortSignal = "none"
    /\ aborted = FALSE
    /\ store = EmptyStore
    /\ call = IdleCall
    /\ tasks = <<>>
    /\ trace = <<>>
    /\ batch = NoBatch
    /\ subscribers = NoSubscribers
    /\ observable = NoObservable
    /\ retryNode = NoRetryNode
    /\ wrap = [kind |-> "fallback", pc |-> "idle", id |-> FallbackId,
               settled |-> Pending, input |-> Undefined, calls |-> 0]

\* chain t awaits node.execute of the wrapper node
AwaitsWrapper(t) ==
    /\ tasks[t] # <<>>
    /\ Last(tasks[t]).pc = "awaitNode"
    /\ Last(tasks[t]).node = FallbackId
    /\ Last(tasks[t]).settled.st = "none"

\* the process function of a plain node of the Flow settles
PlainProcessSettles(t, r) ==
    /\ t \in 1..Len(tasks)
    /\ ~AwaitsWrapper(t)
    /\ ProcessSettles(t, r)

\* the wrapped node's process function settles; its Node.execute records
FallbackInnerSettles(t, ok, v) ==
    /\ wrap.kind = "fallback"
    /\ wrap.pc = "idle"
    /\ t \in 1..Len(tasks)
    /\ AwaitsWrapper(t)
    /\ LET val == IF ok THEN Out(Inner, v) ELSE InnerErr(v)
       IN  /\ store' = IF ok THEN NodeExecuteSuccess(store, Inner, val)
                       ELSE NodeExecuteFailure(store, Inner, val)
           /\ wrap' = [wrap EXCEPT !.pc = "innerSettled",
                                   !.input = Last(tasks[t]).input,
                                   !.settled = IF ok THEN Resolved(val)
                                               ELSE Rejected(val)]
           /\ trace' = Append(trace, Event(IF ok THEN "output" ELSE "error", Inner,
                                           val, 0, TRUE))
    /\ UNCHANGED flowVars

\* withFallback resumes after await originalNode.execute: return the result,
\* or call fallbackFn(error, input, store)
FallbackResume ==
    /\ wrap.kind = "fallback"
    /\ wrap.pc = "innerSettled"
    /\ IF wrap.settled.st = "rejected" /\ FallbackCatches(wrap.settled.val)
       THEN /\ wrap' = [wrap EXCEPT !.pc = "awaitFallback", !.settled = Pending]
            /\ trace' = trace \o
                   <<Event("fallback", FallbackId, wrap.settled.val, 0, TRUE),
                     Event("fallbackInput", FallbackId, wrap.input, 0, TRUE)>>
       ELSE /\ wrap' = [wrap EXCEPT !.pc = "processSettled"]
            /\ trace' = trace
    /\ UNCHANGED <<flowVars, store>>

\* fallbackFn(error, input, store) returns or throws
FallbackFnSettles(ok) ==
    /\ wrap.kind = "fallback"
    /\ wrap.pc = "awaitFallback"
    /\ wrap' = [wrap EXCEPT !.pc = "processSettled",
                            !.settled = IF ok THEN Resolved(FallbackValue)
                                        ELSE Rejected(FallbackError)]
    /\ trace' = Append(trace, Event(IF ok THEN "fbvalue" ELSE "fberror", FallbackId,
                                    IF ok THEN FallbackValue ELSE FallbackError,
                                    0, TRUE))
    /\ UNCHANGED <<flowVars, store>>

\* Node.execute of the wrapper node: its process function has settled, the
\* outcome is recorded and handed to the executeNode call that awaits it
FallbackNodeSettles(t) ==
    /\ wrap.kind = "fallback"
    /\ wrap.pc = "processSettled"
    /\ t \in 1..Len(tasks)
    /\ AwaitsWrapper(t)
    /\ store' = IF wrap.settled.st = "resolved"
                THEN NodeExecuteSuccess(store, FallbackId, wrap.settled.val)
                ELSE NodeExecuteFailure(store, FallbackId, wrap.settled.val)
    /\ tasks' = [tasks EXCEPT ![t][Len(tasks[t])].settled = wrap.settled]
    /\ wrap' = [wrap EXCEPT !.pc = "done", !.calls = @ + 1]
    /\ trace' = Append(trace, Event(IF wrap.settled.st = "resolved" THEN "output"
                                    ELSE "error",
                                    FallbackId, wrap.settled.val, 0, TRUE))
    /\ UNCHANGED <<script, nodes, connections, startNodes, executedNodes, abortSignal,
                   aborted, call, batch, subscribers, observable, retryNode>>

NextFallback ==
    \/ \E par \in BOOLEAN, input \in Inputs : Execute(par, "none", input)
    \/ \E t \in 1..Len(tasks), r \in Routes \cup {"throw"} : PlainProcessSettles(t, r)
    \/ \E t \in 1..Len(tasks), v \in Routes : FallbackInnerSettles(t, TRUE, v)
    \/ \E t \in 1..Len(tasks), m \in FallbackInnerErrors : FallbackInnerSettles(t, FALSE, m)
    \/ FallbackResume
    \/ \E ok \in BOOLEAN : FallbackFnSettles(ok)
    \/ \E t \in 1..Len(tasks) : FallbackNodeSettles(t)
    \/ \E t \in 1..Len(tasks) : Resume(t)
    \/ Join

SpecFallback == InitFallback /\ [][NextFallback]_vars

(***************************************************************************)
(* Reading the history of the withFallback wrapper                         *)
(***************************************************************************)
FbInnerResults == {i \in Idx : trace[i].node = Inner /\ trace[i].ev \in {"output", "error"}}

FbCalls == {i \in Idx : Is(i, "fallback")}

FbResults == {i \in Idx : trace[i].ev \in {"fbvalue", "fberror"}}

FbWrapperResults ==
    {i \in Idx : trace[i].node = FallbackId /\ trace[i].ev \in {"output", "error"}}

\* the input executeNode handed to the wrapper node
FbWrapperInput == trace[CHOOSE i \in Idx : IsOf(i, "invoke", FallbackId)].val

(***************************************************************************)
(* C12 as stated, its second part: whenever the wrapped node fails, the    *)
(* wrapper resolves (to the result of fallbackFn), so the Flow does not    *)
(* fail at the wrapper.                                                    *)
(***************************************************************************)
C12_AsStated ==
    wrap.kind = "fallback" =>
    \A j \in FbInnerResults : Is(j, "error") =>
        \A s \in FbWrapperResults : Is(s, "output")

(***************************************************************************)
(* C12 amended. If the wrapped node resolves to v, the wrapper resolves to *)
(* v and fallbackFn is never invoked. If the wrapped node fails with any   *)
(* error e, fallbackFn(e, input, store) is invoked exactly once, the store *)
(* holds e at node:<wrapped id>:error, and the wrapper settles as          *)
(* fallbackFn does: if fallbackFn returns a value the wrapper resolves to  *)
(* it, the store holds it at node:<wrapped id>_with_fallback:output and    *)
(* the Flow walks on along the wrapper's outgoing edges with that value;   *)
(* if fallbackFn throws, the wrapper rejects with the error fallbackFn     *)
(* threw and the Flow fails with it.                                       *)
(***************************************************************************)
C12_Fallback ==
    wrap.kind = "fallback" =>
    /\ Cardinality(FbCalls) <= 1
    /\ \A j \in FbInnerResults :
           /\ Is(j, "output") =>
                  /\ FbCalls = {}
                  /\ StoreGet(store, OutputKey(Inner)) = trace[j].val
                  /\ \A s \in FbWrapperResults :
                         Is(s, "output") /\ trace[s].val = trace[j].val
           /\ Is(j, "error") =>
                  /\ StoreGet(store, ErrorKey(Inner)) = trace[j].val
                  /\ wrap.pc \in {"awaitFallback", "processSettled", "done"}
                         => Cardinality(FbCalls) = 1
                  /\ \A f \in FbCalls :
                         /\ j < f
                         /\ trace[f].val = trace[j].val
                         /\ trace[f + 1].val = FbWrapperInput
                  /\ \A s \in FbWrapperResults :
                         \E f \in FbResults :
                             /\ f < s
                             /\ trace[s].val = trace[f].val
                             /\ Is(s, "output") <=> Is(f, "fbvalue")
                             /\ Is(s, "output") =>
                                    StoreGet(store, OutputKey(FallbackId)) = trace[f].val
                  /\ (Settled /\ Quiet) =>
                         IF \E f \in FbResults : Is(f, "fbvalue")
                         THEN /\ \E i \in Idx : /\ IsOf(i, "invoke", "C")
                                                /\ trace[i].val = FallbackValue
                              /\ call.phase = "rejected" => call.result = Err("C")
                         ELSE /\ Invocations("C") = {}
                              /\ call.phase = "rejected"
                              /\ call.result = FallbackError

\* the wrapped node failed, fallbackFn was invoked once with that error and
\* returned a value; node C then ran with the fallback value as its input and
\* the sequential execute resolved
C12_Witness ==
    /\ wrap.kind = "fallback"
    /\ wrap.pc = "done"
    /\ ~call.parallel
    /\ call.phase = "resolved"
    /\ Cardinality(FbCalls) = 1
    /\ StoreGet(store, ErrorKey(Inner)) = InnerErr("x")
    /\ StoreGet(store, OutputKey(FallbackId)) = FallbackValue
    /\ \E i \in Idx : IsOf(i, "invoke", "C") /\ trace[i].val = FallbackValue
    /\ Invocations("D") = {}

(***************************************************************************)
(* Flow.batch, sequential: one execute per item on one store. Node A is    *)
(* the node (input, store) => { store.append('seen', input); return input },*)
(* the other nodes are plain.                                              *)
(***************************************************************************)
MaxItems == 3

Item(d) == [kind |-> "value", by |-> "item", data |-> d]

ItemValues == {Item("1"), Item("2")}

ItemLists == UNION {[1..n -> ItemValues] : n \in 0..MaxItems}

SeenKey == <<"user", "seen", "">>

Recorder == "A"

BatchPrograms ==
    { <<>>,
      AddAll(<<"A">>),
      AddAll(<<"A", "B">>) \o <<ConnectOp("A", "B", "none")>>,
      AddAll(<<"A", "B">>),
      AddAll(<<"B", "A", "C">>) \o <<ConnectOp("B", "A", "none"), ConnectOp("B", "C", "c")>> }

InitBatch ==
    /\ script \in BatchPrograms
    /\ nodes = {}
    /\ connections = <<>>
    /\ startNodes = <<>>
    /\ executedNodes = {}
    /\ abortSignal = "none"
    /\ aborted = FALSE
    /\ store = EmptyStore
    /\ call = IdleCall
    /\ tasks = <<>>
    /\ trace = <<>>
    /\ batch = NoBatch
    /\ subscribers = NoSubscribers
    /\ observable = NoObservable
    /\ retryNode = NoRetryNode
    /\ wrap = NoWrap

\* the head of the sequential loop of batch, with b the state of the batch
\* call and tr the history: stop at the end of items or when the signal is
\* seen triggered, else call execute for the next item
BatchLoopHead(b, tr) ==
    IF b.next > Len(b.items) \/ AbortRequested(b.sig, aborted)
    THEN /\ batch' = [b EXCEPT !.phase = "resolved"]
         /\ trace' = Append(tr, Event("batchResolved", "", Undefined, Len(b.results), TRUE))
         /\ abortSignal' = b.sig
         /\ UNCHANGED <<script, nodes, connections, startNodes, executedNodes, aborted,
                        store, call, tasks, wrap, subscribers, observable, retryNode>>
    ELSE /\ batch' = [b EXCEPT !.next = @ + 1]
         /\ ExecuteFrom(IdleCall,
                        Append(tr, Event("dispatch", "", b.items[b.next], b.next, TRUE)),
                        FALSE, b.sig, b.items[b.next])
         /\ UNCHANGED observable

\* the caller calls batch(items, {store, abortSignal}), up to its first await
BatchCall(items, sig) ==
    /\ script = <<>>
    /\ call.phase = "idle"
    /\ batch = NoBatch
    /\ BatchLoopHead([phase |-> "running", parallel |-> FALSE, sig |-> sig,
                      items |-> items, next |-> 1, results |-> <<>>,
                      error |-> Undefined], trace)

\* batch resumes after await this.execute(...): push the result and go on, or
\* fail with the error of the execute
BatchResume ==
    /\ batch # NoBatch
    /\ batch.phase = "running"
    /\ call.phase \in {"resolved", "rejected"}
    /\ IF call.phase = "rejected"
       THEN /\ batch' = [batch EXCEPT !.phase = "rejected", !.error = call.result]
            /\ trace' = Append(trace, Event("batchRejected", "", call.result, 0, TRUE))
            /\ UNCHANGED <<script, nodes, connections, startNodes, executedNodes,
                           abortSignal, aborted, store, call, tasks, wrap, subscribers,
                           observable, retryNode>>
       ELSE BatchLoopHead([batch EXCEPT !.results = Append(@, call.result)], trace)

\* chain t awaits node.execute of the recording node
AwaitsRecorder(t) ==
    /\ tasks[t] # <<>>
    /\ Last(tasks[t]).pc = "awaitNode"
    /\ Last(tasks[t]).node = Recorder
    /\ Last(tasks[t]).settled.st = "none"

\* the process function of the recording node appends its input to 'seen' and
\* returns it; Node.execute records the output
RecorderSettles(t) ==
    /\ t \in 1..Len(tasks)
    /\ AwaitsRecorder(t)
    /\ LET f == Last(tasks[t])
       IN  /\ store' = NodeExecuteSuccess(StoreAppend(store, SeenKey, f.input),
                                           f.node, f.input)
           /\ tasks' = [tasks EXCEPT ![t][Len(tasks[t])].settled = Resolved(f.input)]
           /\ trace' = Append(trace, Event("output", f.node, f.input, 0, TRUE))
    /\ UNCHANGED <<script, nodes, connections, startNodes, executedNodes, abortSignal,
                   aborted, call, wrap, batch, subscribers, observable, retryNode>>

\* the process function of one of the other nodes settles
OtherProcessSettles(t, r) ==
    /\ t \in 1..Len(tasks)
    /\ ~AwaitsRecorder(t)
    /\ ProcessSettles(t, r)

NextBatch ==
    \/ \E n \in Nodes : AddNode(n)
    \/ \E from \in Nodes, to \in Nodes, cond \in CondKinds : Connect(from, to, cond)
    \/ \E items \in ItemLists, sig \in {"none", "s"} : BatchCall(items, sig)
    \/ BatchResume
    \/ \E t \in 1..Len(tasks) : RecorderSettles(t)
    \/ \E t \in 1..Len(tasks), r \in Routes \cup {"throw"} : OtherProcessSettles(t, r)
    \/ \E t \in 1..Len(tasks) : Resume(t)
    \/ Abort

SpecBatch == InitBatch /\ [][NextBatch]_vars

(***************************************************************************)
(* Reading the history of a batch call: segment k is the part of the       *)
(* history from the dispatch of item k to the dispatch of the next item.   *)
(***************************************************************************)
Dispatched == {trace[i].edge : i \in {j \in Idx : Is(j, "dispatch")}}

DispatchIdx(k) == CHOOSE i \in Idx : Is(i, "dispatch") /\ trace[i].edge = k

Segment(k) ==
    DispatchIdx(k) .. (IF k + 1 \in Dispatched THEN DispatchIdx(k + 1) - 1 ELSE Len(trace))

\* how the execute of item k ended, if it has
ExecuteResults(k) ==
    {i \in Segment(k) : trace[i].node = "" /\ trace[i].ev \in {"resolved", "rejected"}}

InvokedIn(k, n) == {i \in Segment(k) : IsOf(i, "invoke", n)}

\* the process functions still running at position i of the history
InFlightAt(i) ==
    {j \in 1..i : /\ Is(j, "invoke")
                  /\ ~\E m \in (j + 1)..i : /\ trace[m].node = trace[j].node
                                            /\ trace[m].ev \in {"output", "error"}}

(***************************************************************************)
(* C13. A sequential batch(items, {store}) with no abort runs one execute  *)
(* per item, in item order, each finishing before the next starts, all on  *)
(* the same store; every item's traversal invokes the nodes again. When    *)
(* every execute resolves, batch resolves to a list as long as items whose *)
(* i-th element is the traversal result of item i (batch fails only with   *)
(* the failure of an execute). With the single node that appends its input *)
(* to 'seen', the store ends with seen = items, in order.                  *)
(***************************************************************************)
C13_SequentialBatch ==
    (batch # NoBatch /\ ~aborted) =>
    /\ Dispatched = 1..(batch.next - 1)
    /\ \A k \in Dispatched :
           /\ trace[DispatchIdx(k)].val = batch.items[k]
           /\ InFlightAt(DispatchIdx(k)) = {}
           /\ k > 1 => \E i \in ExecuteResults(k - 1) : Is(i, "resolved")
           /\ Cardinality(ExecuteResults(k)) <= 1
           /\ \A i \in ExecuteResults(k) : Is(i, "resolved") =>
                  /\ \A n \in Range(startNodes) : Cardinality(InvokedIn(k, n)) = 1
                  /\ Recorder \in Range(startNodes) =>
                         \E j \in InvokedIn(k, Recorder) : trace[j].val = batch.items[k]
                  /\ k <= Len(batch.results) =>
                         /\ batch.results[k] = trace[i].val
                         /\ nodes = {} => batch.results[k] = batch.items[k]
                         /\ nodes # {} =>
                                \E r \in Segment(k) :
                                    /\ IsOf(r, "return", Last(startNodes))
                                    /\ trace[r].val = batch.results[k]
    /\ batch.phase = "resolved" =>
           /\ Len(batch.results) = Len(batch.items)
           /\ Dispatched = 1..Len(batch.items)
           /\ Recorder \in Range(startNodes) =>
                  StoreGet(store, SeenKey) = ArrayOf(batch.items) \/ batch.items = <<>>
           /\ Recorder \in nodes /\ batch.items # <<>> =>
                  Len(StoreGet(store, SeenKey).items) = Len(batch.items)
           /\ nodes = {Recorder} => batch.results = batch.items
    /\ batch.phase = "rejected" =>
           \E i \in ExecuteResults(batch.next - 1) :
               Is(i, "rejected") /\ trace[i].val = batch.error

\* chain A -> B, three items: A appended the three inputs to 'seen' in item
\* order and B ran once per item
C13_Witness ==
    /\ batch # NoBatch
    /\ batch.phase = "resolved"
    /\ ~aborted
    /\ Len(connections) = 1
    /\ batch.items = <<Item("2"), Item("1"), Item("2")>>
    /\ StoreGet(store, SeenKey) = ArrayOf(batch.items)
    /\ Len(batch.results) = 3
    /\ Cardinality(Invocations("B")) = 3

(***************************************************************************)
(* C14. A parallel execute resolves to an array with one element per      *)
(* start node, in start-node order, whose i-th element is the              *)
(* traversal result of the i-th start node: the value executeNode returned *)
(* for it.                                                                 *)
(***************************************************************************)
C14_AsStated ==
    (call.phase = "resolved" /\ call.parallel /\ nodes # {}) =>
        /\ Len(call.results) = Len(call.ids)
        /\ \A i \in 1..Len(call.ids) :
               \E r \in Idx : /\ IsOf(r, "return", call.ids[i])
                              /\ call.results[i] = trace[r].val

(***************************************************************************)
(* The options of execute: the caller may attach a signal beforehand with  *)
(* withAbortSignal, pass a signal or none to execute, pass any input or    *)
(* none, and trigger the signal at any time.                               *)
(***************************************************************************)
\* values of options.input that JavaScript takes for false
Zero == [kind |-> "falsy", by |-> "caller", data |-> "0"]

Null == [kind |-> "falsy", by |-> "caller", data |-> "null"]

\* options.input: left out, an object, 0, null
AllInputs == {Undefined, CallerInput, Zero, Null}

OptionPrograms ==
    { <<>>,
      AddAll(<<"A">>),
      AddAll(<<"A", "B">>) \o <<ConnectOp("A", "B", "none")>>,
      AddAll(<<"A", "B">>) }

InitOptions ==
    /\ script \in OptionPrograms
    /\ nodes = {}
    /\ connections = <<>>
    /\ startNodes = <<>>
    /\ executedNodes = {}
    /\ abortSignal = "none"
    /\ aborted = FALSE
    /\ store = EmptyStore
    /\ call = IdleCall
    /\ tasks = <<>>
    /\ trace = <<>>
    /\ batch = NoBatch
    /\ subscribers = NoSubscribers
    /\ observable = NoObservable
    /\ retryNode = NoRetryNode
    /\ wrap = NoWrap

\* withAbortSignal(signal): this.abortSignal = signal
WithAbortSignal(sig) ==
    /\ script = <<>>
    /\ call.phase = "idle"
    /\ abortSignal = "none"
    /\ abortSignal' = sig
    /\ trace' = Append(trace, Event("withAbortSignal", "", Undefined, 0, TRUE))
    /\ UNCHANGED <<script, nodes, connections, startNodes, executedNodes, aborted, store,
                   call, tasks, wrap, batch, subscribers, observable, retryNode>>

\* the caller triggers its signal, whether or not the Flow still holds it
TriggerSignal ==
    /\ ~aborted
    /\ script = <<>>
    /\ \/ call.phase = "idle"
       \/ \E t \in 1..Len(tasks) : tasks[t] # <<>>
    /\ aborted' = TRUE
    /\ trace' = Append(trace, Event("aborted", "", Undefined, 0, TRUE))
    /\ UNCHANGED <<script, nodes, connections, startNodes, executedNodes, abortSignal,
                   store, call, tasks, wrap, batch, subscribers, observable, retryNode>>

NextOptions ==
    \/ \E n \in Nodes : AddNode(n)
    \/ \E from \in Nodes, to \in Nodes, cond \in CondKinds : Connect(from, to, cond)
    \/ WithAbortSignal("s")
    \/ \E par \in BOOLEAN, sig \in {"none", "s"}, input \in AllInputs :
           Execute(par, sig, input)
    \/ \E t \in 1..Len(tasks), r \in {"b", "throw"} : ProcessSettles(t, r)
    \/ \E t \in 1..Len(tasks) : Resume(t)
    \/ Join
    \/ TriggerSignal

SpecOptions == InitOptions /\ [][NextOptions]_vars

(***************************************************************************)
(* C15. After withAbortSignal(s), an execute call that passes no           *)
(* abortSignal option checks s at every node boundary: once s is triggered *)
(* no further process function is started, and a call made with s already  *)
(* triggered rejects with the cancellation error.                          *)
(***************************************************************************)
C15_AttachedSignal ==
    (Happened("withAbortSignal") /\ call.phase # "idle" /\ abortSignal = "none") =>
        /\ \A i \in Idx : Is(i, "aborted") =>
               \A j \in (i + 1)..Len(trace) : ~Is(j, "invoke")
        /\ (Settled /\ startNodes # <<>> /\ Is(2, "aborted")) =>
               call.phase = "rejected" /\ call.result = AbortError

(***************************************************************************)
(* Building a Flow: every sequence of addNode and connect calls over two   *)
(* node ids, up to MaxOps calls, valid or not. The caller catches the      *)
(* error of a failed connect and goes on.                                  *)
(***************************************************************************)
MaxOps == 4

BuildNodes == {"A", "B"}

BuildOps ==
    {AddNodeOp(n) : n \in BuildNodes}
    \cup {ConnectOp(from, to, cond) : from \in BuildNodes, to \in BuildNodes,
                                       cond \in {"none", "b"}}

BuildScripts == UNION {[1..n -> BuildOps] : n \in 0..MaxOps}

\* Error(`Source node "${from}" not found`) / Error(`Target node "${to}" not found`)
ConfigError(id) == [kind |-> "error", by |-> "flow", data |-> "not found"]

InitBuild ==
    /\ script \in BuildScripts
    /\ nodes = {}
    /\ connections = <<>>
    /\ startNodes = <<>>
    /\ executedNodes = {}
    /\ abortSignal = "none"
    /\ aborted = FALSE
    /\ store = EmptyStore
    /\ call = IdleCall
    /\ tasks = <<>>
    /\ trace = <<>>
    /\ batch = NoBatch
    /\ subscribers = NoSubscribers
    /\ observable = NoObservable
    /\ retryNode = NoRetryNode
    /\ wrap = NoWrap

\* connect(from, to, {condition}) with from or to not registered: it throws
ConnectFails(from, to, cond) ==
    /\ script # <<>>
    /\ Head(script) = ConnectOp(from, to, cond)
    /\ from \notin nodes \/ to \notin nodes
    /\ script' = Tail(script)
    /\ trace' = Append(trace, Event("configError", IF from \notin nodes THEN from ELSE to,
                                    ConfigError(IF from \notin nodes THEN from ELSE to),
                                    0, TRUE))
    /\ UNCHANGED <<nodes, connections, startNodes, executedNodes, abortSignal, aborted,
                   store, call, tasks, wrap, batch, subscribers, observable, retryNode>>

NextBuild ==
    \/ \E n \in Nodes : AddNode(n)
    \/ \E from \in Nodes, to \in Nodes, cond \in CondKinds : Connect(from, to, cond)
    \/ \E from \in Nodes, to \in Nodes, cond \in CondKinds : ConnectFails(from, to, cond)

SpecBuild == InitBuild /\ [][NextBuild]_vars

\* the next call of the caller is connect(from, to, {condition: cond})
NextIsConnect(from, to, cond) == script # <<>> /\ Head(script) = ConnectOp(from, to, cond)

(***************************************************************************)
(* C16. connect(from, to) with from or to not registered fails with a      *)
(* configuration error and leaves the node registry, the edge list and the *)
(* start set unchanged; with both registered it appends exactly one edge   *)
(* (from, to, condition) at the end of the edge list, removes 'to' from    *)
(* the start set (nothing happens if it is absent), and changes nothing    *)
(* else.                                                                   *)
(***************************************************************************)
C16_Connect ==
    [][\A from \in BuildNodes, to \in BuildNodes, cond \in CondKinds :
          NextIsConnect(from, to, cond) =>
              /\ nodes' = nodes
              /\ UNCHANGED <<executedNodes, abortSignal, aborted, store, call, tasks>>
              /\ IF from \in nodes /\ to \in nodes
                 THEN /\ connections' = connections \o
                              <<[from |-> from, to |-> to, condition |-> cond]>>
                      /\ Range(startNodes') = Range(startNodes) \ {to}
                      /\ \A i, j \in 1..Len(startNodes') :
                             startNodes'[i] = startNodes'[j] => i = j
                      /\ trace' = trace
                 ELSE /\ connections' = connections
                      /\ startNodes' = startNodes
                      /\ trace' = Append(trace, Last(trace'))
                      /\ Last(trace').ev = "configError"]_vars

\* one connect failed on an unregistered id and a later one removed its target
\* from the start set
C16_Witness ==
    /\ script = <<>>
    /\ Happened("configError")
    /\ Len(connections) = 1
    /\ nodes = {"A", "B"}
    /\ startNodes = <<"A">>

(***************************************************************************)
(* C17. execute on a Flow with zero registered nodes resolves to the input *)
(* it was given, unchanged, for every supplied input value (objects as     *)
(* well as 0, false, the empty string and null), and writes nothing to the *)
(* store.                                                                  *)
(***************************************************************************)
C17_EmptyFlowPassThrough ==
    (script = <<>> /\ nodes = {} /\ call.phase # "idle" /\ call.optInput # Undefined) =>
        /\ call.phase = "resolved"
        /\ call.result = call.optInput
        /\ store = EmptyStore

\* the registered ids no edge points to
NoIncoming == {n \in nodes : \A i \in 1..Len(connections) : connections[i].to # n}

(***************************************************************************)
(* C18. After every sequence of addNode and connect calls, including the   *)
(* registration of an id that is already registered and already the target *)
(* of an edge, the start set is exactly the set of registered node ids     *)
(* that are the target of no edge.                                         *)
(***************************************************************************)
C18_StartSet == Range(startNodes) = NoIncoming

(***************************************************************************)
(* SharedStore used directly: a caller makes up to MaxStoreOps calls of    *)
(* set, append, delete, clear, subscribe and of the unsubscribe functions  *)
(* it was handed. Every call is synchronous, the callbacks it invokes      *)
(* included. Callback cb2 throws whenever it is invoked.                   *)
(***************************************************************************)
MaxStoreOps == 4

UserKey(name) == <<"user", name, "">>

StoreKeys == {UserKey("k1"), UserKey("k2")}

KeyNo(key) == IF key = UserKey("k1") THEN 1 ELSE 2

StoreValues == {Item("1"), Item("2")}

Callbacks == {"cb1", "cb2"}

\* the callback throws
Throws(cb) == cb = "cb2"

\* this.subscribers.get(key), as a list in insertion order
SubscribersOf(subs, key) == IF key \in DOMAIN subs THEN subs[key] ELSE <<>>

\* notifySubscribers(key, value): every subscriber of key is called in turn, an
\* exception of one is caught and logged
NotifyEvents(subs, key, value) ==
    [i \in 1..Len(SubscribersOf(subs, key)) |->
        Event("notify", SubscribersOf(subs, key)[i], value, KeyNo(key),
              ~Throws(SubscribersOf(subs, key)[i]))]

\* the calls made so far
StoreOps == {i \in Idx : trace[i].ev \in {"set", "append", "delete", "clear",
                                          "subscribe", "unsubscribe"}}

InitStore ==
    /\ script = <<>>
    /\ nodes = {}
    /\ connections = <<>>
    /\ startNodes = <<>>
    /\ executedNodes = {}
    /\ abortSignal = "none"
    /\ aborted = FALSE
    /\ store = EmptyStore
    /\ call = IdleCall
    /\ tasks = <<>>
    /\ trace = <<>>
    /\ batch = NoBatch
    /\ subscribers = NoSubscribers
    /\ observable = NoObservable
    /\ retryNode = NoRetryNode
    /\ wrap = NoWrap

storeRest == <<script, nodes, connections, startNodes, executedNodes, abortSignal,
               aborted, call, tasks, wrap, batch, observable, retryNode>>

\* set(key, value)
StoreSetCall(key, value) ==
    /\ Cardinality(StoreOps) < MaxStoreOps
    /\ store' = StoreSet(store, key, value)
    /\ trace' = trace \o <<Event("set", "", value, KeyNo(key), TRUE)>>
                      \o NotifyEvents(subscribers, key, value)
    /\ UNCHANGED <<storeRest, subscribers>>

\* append(key, value)
StoreAppendCall(key, value) ==
    /\ Cardinality(StoreOps) < MaxStoreOps
    /\ store' = StoreAppend(store, key, value)
    /\ trace' = trace \o <<Event("append", "", value, KeyNo(key), TRUE)>>
                      \o NotifyEvents(subscribers, key, StoreGet(store', key))
    /\ UNCHANGED <<storeRest, subscribers>>

\* delete(key): subscribers are told only if the key was present
StoreDeleteCall(key) ==
    /\ Cardinality(StoreOps) < MaxStoreOps
    /\ store' = StoreDelete(store, key)
    /\ trace' = trace \o <<Event("delete", "", Undefined, KeyNo(key), StoreHas(store, key))>>
                      \o (IF StoreHas(store, key)
                          THEN NotifyEvents(subscribers, key, Undefined) ELSE <<>>)
    /\ UNCHANGED <<storeRest, subscribers>>

\* clear(): this.data.clear()
StoreClearCall ==
    /\ Cardinality(StoreOps) < MaxStoreOps
    /\ store' = EmptyStore
    /\ trace' = Append(trace, Event("clear", "", Undefined, 0, TRUE))
    /\ UNCHANGED <<storeRest, subscribers>>

\* the subscriber map after subscribers.add(callback) under key
SubscribersAfterAdd(subs, key, cb) ==
    [k \in (DOMAIN subs) \cup {key} |->
        IF k = key THEN SetAdd(SubscribersOf(subs, key), cb) ELSE subs[k]]

\* the subscriber map after the unsubscribe function of (key, callback) ran
SubscribersAfterRemove(subs, key, cb) ==
    IF key \notin DOMAIN subs THEN subs
    ELSE IF SetDelete(subs[key], cb) = <<>>
    THEN [k \in (DOMAIN subs) \ {key} |-> subs[k]]
    ELSE [subs EXCEPT ![key] = SetDelete(subs[key], cb)]

\* the callback is not called by subscribe
ImmediateCallNever(st, key) == FALSE

\* if (this.has(key)) callback(this.get(key), key)
ImmediateCall(st, key) == StoreHas(st, key)

\* subscribe(key, callback): register, call the callback at once if the key
\* holds a value, return the unsubscribe function
SubscribeCall(key, cb) ==
    /\ Cardinality(StoreOps) < MaxStoreOps
    /\ subscribers' = SubscribersAfterAdd(subscribers, key, cb)
    /\ trace' = trace
          \o <<Event("subscribe", cb, StoreGet(store, key), KeyNo(key), StoreHas(store, key))>>
          \o (IF ImmediateCall(store, key)
              THEN <<Event("notify", cb, StoreGet(store, key), KeyNo(key), ~Throws(cb))>>
              ELSE <<>>)
          \o <<Event(IF ImmediateCall(store, key) /\ Throws(cb) THEN "subscribeThrew"
                     ELSE "subscribed", cb, Undefined, KeyNo(key), TRUE)>>
    /\ UNCHANGED <<storeRest, store>>

\* the unsubscribe functions the caller holds: one per subscribe that returned
Issued(key, cb) ==
    \E i \in Idx : IsOf(i, "subscribed", cb) /\ trace[i].edge = KeyNo(key)

\* the unsubscribe function returned by the subscribe call of history entry i
Closure(i) == [kind |-> "closure", by |-> "", data |-> "", of |-> i]

\* the subscribe calls of (key, cb) that returned an unsubscribe function
IssuedAt(key, cb) ==
    {i \in Idx : IsOf(i, "subscribed", cb) /\ trace[i].edge = KeyNo(key)}

\* the caller calls an unsubscribe function it was handed, for the first time
\* or again
UnsubscribeCall(key, cb) ==
    /\ Cardinality(StoreOps) < MaxStoreOps
    /\ Issued(key, cb)
    /\ subscribers' = SubscribersAfterRemove(subscribers, key, cb)
    /\ \E i \in IssuedAt(key, cb) :
           trace' = Append(trace, Event("unsubscribe", cb, Closure(i), KeyNo(key), TRUE))
    /\ UNCHANGED <<storeRest, store>>

NextStore ==
    \/ \E key \in StoreKeys, value \in StoreValues : StoreSetCall(key, value)
    \/ \E key \in StoreKeys, value \in StoreValues : StoreAppendCall(key, value)
    \/ \E key \in StoreKeys : StoreDeleteCall(key)
    \/ StoreClearCall
    \/ \E key \in StoreKeys, cb \in Callbacks : SubscribeCall(key, cb)
    \/ \E key \in StoreKeys, cb \in Callbacks : UnsubscribeCall(key, cb)

SpecStore == InitStore /\ [][NextStore]_vars

(***************************************************************************)
(* Reading the history of store calls: the callbacks a call invoked are    *)
(* the notify events that follow it directly.                              *)
(***************************************************************************)
NotifiedBy(j) ==
    {m \in (j + 1)..Len(trace) : \A x \in (j + 1)..m : Is(x, "notify")}

\* the subscription of cb to the key of event i was still there at event j > i
StillSubscribed(i, j) ==
    ~\E u \in (i + 1)..(j - 1) : /\ IsOf(u, "unsubscribe", trace[i].node)
                                 /\ trace[u].edge = trace[i].edge

(***************************************************************************)
(* C19. subscribe(k, cb): if k holds a value v, cb(v, k) is invoked        *)
(* exactly once, synchronously, before subscribe returns; if k is absent,  *)
(* subscribe does not invoke cb. In both cases cb is registered for the    *)
(* later changes of k.                                                     *)
(***************************************************************************)
C19_Subscribe ==
    \A i \in Idx : Is(i, "subscribe") =>
        LET cb == trace[i].node
            calls == {m \in NotifiedBy(i) : trace[m].node = cb}
        IN  /\ trace[i].flag =>
                   /\ Cardinality(calls) = 1
                   /\ NotifiedBy(i) = {i + 1}
                   /\ trace[i + 1].val = trace[i].val
                   /\ trace[i + 1].edge = trace[i].edge
                   /\ trace[i + 2].ev \in {"subscribed", "subscribeThrew"}
            /\ ~trace[i].flag =>
                   /\ NotifiedBy(i) = {}
                   /\ Is(i + 1, "subscribed")
            /\ \A j \in (i + 1)..Len(trace) :
                   (/\ trace[j].ev \in {"set", "append"}
                    /\ trace[j].edge = trace[i].edge
                    /\ StillSubscribed(i, j)) =>
                       \E m \in NotifiedBy(j) :
                           /\ trace[m].node = cb
                           /\ trace[m].edge = trace[i].edge
            /\ StillSubscribed(i, Len(trace) + 1) =>
                   \E key \in StoreKeys :
                       /\ KeyNo(key) = trace[i].edge
                       /\ cb \in Range(SubscribersOf(subscribers, key))

\* cb1 subscribed to a key that held a value and was called at once with it;
\* a later set of the key called it again
C19_Witness ==
    \E i \in Idx :
        /\ IsOf(i, "subscribe", "cb1")
        /\ trace[i].flag
        /\ trace[i].val = Item("1")
        /\ IsOf(i + 1, "notify", "cb1")
        /\ \E j \in (i + 3)..Len(trace) :
               /\ Is(j, "set")
               /\ trace[j].val = Item("2")
               /\ j + 1 \in Idx
               /\ IsOf(j + 1, "notify", "cb1")
               /\ trace[j + 1].val = Item("2")

\* the values appended to key so far, in call order
AppendedTo(key) ==
    LET IsAppend(e) == e.ev = "append" /\ e.edge = KeyNo(key)
        picked == SelectSeq(trace, IsAppend)
    IN  [i \in 1..Len(picked) |-> picked[i].val]

\* key has only ever been appended to
OnlyAppended(key) ==
    \A i \in Idx : (trace[i].ev \in {"set", "delete"} => trace[i].edge # KeyNo(key))
                   /\ ~Is(i, "clear")

\* this step is the call append(key, x)
AppendStep(key, x) ==
    /\ Len(trace') > Len(trace)
    /\ trace'[Len(trace) + 1].ev = "append"
    /\ trace'[Len(trace) + 1].edge = KeyNo(key)
    /\ trace'[Len(trace) + 1].val = x

(***************************************************************************)
(* C20. append(k, x) never throws, whatever the subscribers of k do. If k  *)
(* is absent or holds a value that is not an array, afterwards get(k) is   *)
(* the one-element array [x]; if k holds an array a, afterwards get(k) is  *)
(* a followed by x; the other keys keep their values. So n appends to an   *)
(* absent key yield the n values in call order.                            *)
(***************************************************************************)
C20_Append ==
    /\ [][\A key \in StoreKeys, x \in StoreValues :
             AppendStep(key, x) =>
                 /\ StoreGet(store', key) =
                        IF IsArray(StoreGet(store, key))
                        THEN ArrayOf(StoreGet(store, key).items \o <<x>>)
                        ELSE ArrayOf(<<x>>)
                 /\ \A other \in StoreKeys \ {key} :
                        /\ StoreHas(store', other) = StoreHas(store, other)
                        /\ StoreGet(store', other) = StoreGet(store, other)
                 /\ subscribers' = subscribers
                 /\ \A m \in (Len(trace) + 2)..Len(trace') : trace'[m].ev = "notify"]_vars
    /\ [](\A key \in StoreKeys :
             (OnlyAppended(key) /\ AppendedTo(key) # <<>>) =>
                 StoreGet(store, key) = ArrayOf(AppendedTo(key)))

\* k1 held a plain value; two appends replaced it by the array of the two
\* appended values, in call order, although the throwing callback was subscribed
C20_Witness ==
    /\ Len(trace) >= 4
    /\ Is(1, "set")
    /\ trace[1].edge = 1
    /\ IsOf(2, "subscribe", "cb2")
    /\ trace[2].edge = 1
    /\ StoreGet(store, UserKey("k1")) = ArrayOf(<<Item("2"), Item("1")>>)
    /\ \E m \in Idx : IsOf(m, "notify", "cb2") /\ ~trace[m].flag /\ IsArray(trace[m].val)

(***************************************************************************)
(* Reading the history: the store call a notification belongs to, and the  *)
(* subscribers the key had when that call was made.                        *)
(***************************************************************************)
\* the callbacks invoked by the store call of history entry j, in order
CalledBy(j) == [m \in 1..Cardinality(NotifiedBy(j)) |-> trace[j + m].node]

\* the subscriber list of the key of entry j at the time of entry j, rebuilt
\* from the subscribe and unsubscribe calls before it
RECURSIVE SubscribedBefore(_, _)
SubscribedBefore(j, edge) ==
    IF j <= 1 THEN <<>>
    ELSE LET e == trace[j - 1]
             before == SubscribedBefore(j - 1, edge)
         IN  IF e.edge # edge THEN before
             ELSE IF e.ev = "subscribe" THEN SetAdd(before, e.node)
             ELSE IF e.ev = "unsubscribe" THEN SetDelete(before, e.node)
             ELSE before

(***************************************************************************)
(* C21. An exception thrown by a subscriber callback never propagates to   *)
(* the caller of the store operation that invoked it (set, append, delete, *)
(* the immediate invocation made by subscribe); the operation takes full   *)
(* effect (subscribe returns its unsubscribe function) and the remaining   *)
(* subscribers of the key are still notified.                              *)
(***************************************************************************)
C21_SubscriberErrorsContained ==
    \A j \in Idx :
        /\ ~Is(j, "subscribeThrew")
        /\ (trace[j].ev \in {"set", "append"} \/ (Is(j, "delete") /\ trace[j].flag)) =>
               CalledBy(j) = SubscribedBefore(j, trace[j].edge)
        /\ Is(j, "subscribe") =>
               \E m \in (j + 1)..Len(trace) : IsOf(m, "subscribed", trace[j].node)

\* the callbacks this step invoked for key, in order
NotifiedInStep(key) ==
    LET OfKey(e) == e.ev = "notify" /\ e.edge = KeyNo(key)
    IN  SelectSeq(SubSeq(trace', Len(trace) + 1, Len(trace')), OfKey)

\* this step changed what key holds
ChangedInStep(key) ==
    \/ StoreHas(store', key) # StoreHas(store, key)
    \/ StoreGet(store', key) # StoreGet(store, key)

(***************************************************************************)
(* C22. Whenever the value stored at k changes, by set, append, delete or  *)
(* clear, every current subscriber of k is invoked synchronously, once,    *)
(* with (new value, k), the absent sentinel after delete and clear;        *)
(* subscribers of other keys are not invoked. delete(k) on an absent key   *)
(* returns false and changes nothing.                                      *)
(***************************************************************************)
C22_ChangeNotifies ==
    [][Len(trace') > Len(trace) =>
          LET op == trace'[Len(trace) + 1]
          IN  /\ \A key \in StoreKeys :
                     /\ ChangedInStep(key) =>
                            /\ Len(NotifiedInStep(key)) = Len(SubscribersOf(subscribers, key))
                            /\ \A m \in 1..Len(NotifiedInStep(key)) :
                                   /\ NotifiedInStep(key)[m].node =
                                          SubscribersOf(subscribers, key)[m]
                                   /\ NotifiedInStep(key)[m].val = StoreGet(store', key)
                     /\ (~ChangedInStep(key) /\ op.edge # KeyNo(key)) =>
                            NotifiedInStep(key) = <<>>
              /\ (op.ev = "delete" /\ ~op.flag) =>
                     /\ store' = store
                     /\ Len(trace') = Len(trace) + 1]_vars

(***************************************************************************)
(* Reading the history: a subscription is one subscribe call, named by the *)
(* history entry at which the call ended.  It is active until the          *)
(* unsubscribe function that call returned is called.                      *)
(***************************************************************************)
Subscriptions == {i \in Idx : trace[i].ev \in {"subscribed", "subscribeThrew"}}

ActiveAt(i, j) ==
    ~\E u \in (i + 1)..(j - 1) : Is(u, "unsubscribe") /\ trace[u].val = Closure(i)

\* the subscriptions of cb to the key numbered edge that are active at entry j
ActiveOf(cb, edge, j) ==
    {i \in Subscriptions : /\ i < j
                           /\ trace[i].node = cb
                           /\ trace[i].edge = edge
                           /\ ActiveAt(i, j)}

(***************************************************************************)
(* C23. The function returned by subscribe(k, cb) removes exactly the      *)
(* subscription created by that call: afterwards that subscription's       *)
(* callback is not invoked by a later change of k, every other             *)
(* subscription stays active (a second subscription of the same callback   *)
(* to the same key included), calling it again is a no-op, and no key ever *)
(* maps to an empty subscriber set.                                        *)
(***************************************************************************)
C23_Unsubscribe ==
    /\ \A key \in StoreKeys, cb \in Callbacks :
           cb \in Range(SubscribersOf(subscribers, key))
               <=> ActiveOf(cb, KeyNo(key), Len(trace) + 1) # {}
    /\ \A j \in Idx, cb \in Callbacks :
           (trace[j].ev \in {"set", "append"} \/ (Is(j, "delete") /\ trace[j].flag)) =>
               (cb \in Range(CalledBy(j)) <=> ActiveOf(cb, trace[j].edge, j) # {})
    /\ \A key \in DOMAIN subscribers : subscribers[key] # <<>>

\* no callback was subscribed to the same key by two calls
NoRepeatedSubscription ==
    \A i, j \in Subscriptions :
        (trace[i].node = trace[j].node /\ trace[i].edge = trace[j].edge) => i = j

(***************************************************************************)
(* ObservableFlow: a Flow wrapped so that its execute emits flow:start,    *)
(* flow:complete or flow:error, and hands the Flow a Proxy of the store    *)
(* whose set, get and delete emit store:set, store:get and store:delete.   *)
(* The caller registers listeners with on(event, callback), then calls     *)
(* execute once.  A listener returns, throws an Error, or throws a value   *)
(* that has no properties (throw undefined); a process function returns,   *)
(* throws an Error, or rejects with undefined (reject() without argument). *)
(* FlowLogger is not part of the sources; its calls are taken to return.   *)
(***************************************************************************)
EventNames == <<"flow:start", "flow:complete", "flow:error", "store:set", "store:get",
                "store:delete", "*">>

EventNo(event) == CHOOSE k \in 1..Len(EventNames) : EventNames[k] = event

Listeners == {"log", "bad", "worse"}

ListenerThrows(l) == l # "log"

\* what the listener throws: bad throws an Error, worse throws undefined
ListenerThrown(l) ==
    IF l = "bad" THEN [kind |-> "error", by |-> "listener", data |-> "x"] ELSE Undefined

\* e.message can be read: e is neither undefined nor null
MessageReadable(e) == e.kind # "undefined"

\* what reading e.message throws when e is undefined
ReadTypeError ==
    [kind |-> "error", by |-> "runtime",
     data |-> "Cannot read properties of undefined (reading 'message')"]

OnOp(event, l) == [op |-> "on", a |-> event, b |-> l, c |-> "none"]

\* private eventListeners = new Map()
NoListeners == [e \in Range(EventNames) |-> <<>>]

IdleObservable == [pc |-> "idle", listeners |-> NoListeners, outcome |-> Pending]

\* emit(event, data): the listeners of the event, then those of '*', are called
\* in turn inside try/catch; the catch reads e.message, which throws out of emit
\* when e is undefined
EmitOutcome(ls, event, data) ==
    LET all  == ls[event] \o ls["*"]
        fatal == {k \in 1..Len(all) : /\ ListenerThrows(all[k])
                                      /\ ~MessageReadable(ListenerThrown(all[k]))}
        n    == IF fatal = {} THEN Len(all)
                ELSE CHOOSE k \in fatal : \A j \in fatal : k <= j
    IN  [events |-> <<Event("emit", event, data, Len(all), fatal = {})>> \o
                    [k \in 1..n |-> Event("listen", all[k], data, EventNo(event),
                                          ~ListenerThrows(all[k]))],
         threw |-> fatal # {}]

\* the graphs and the listeners the caller sets up before execute
ListenerScripts ==
    { <<>>,
      <<OnOp("flow:start", "log"), OnOp("flow:complete", "log"), OnOp("flow:error", "log")>>,
      <<OnOp("flow:complete", "bad"), OnOp("flow:complete", "log"), OnOp("store:set", "bad")>>,
      <<OnOp("*", "bad"), OnOp("*", "log"), OnOp("*", "log")>>,
      <<OnOp("flow:start", "worse")>>,
      <<OnOp("flow:complete", "worse"), OnOp("flow:complete", "log")>>,
      <<OnOp("flow:error", "worse")>>,
      <<OnOp("store:set", "worse")>>,
      <<OnOp("store:get", "worse")>> }

ObservableGraphs ==
    { <<>>,
      AddAll(<<"A">>),
      AddAll(<<"A", "B">>) \o <<ConnectOp("A", "B", "b")>>,
      AddAll(<<"A", "B">>),
      \* B is reached twice: the second time it is skipped and its output read
      AddAll(<<"A", "B">>) \o <<ConnectOp("A", "B", "none"), ConnectOp("A", "B", "none")>> }

ObservablePrograms == {g \o l : g \in ObservableGraphs, l \in ListenerScripts}

InitObservable ==
    /\ script \in ObservablePrograms
    /\ nodes = {}
    /\ connections = <<>>
    /\ startNodes = <<>>
    /\ executedNodes = {}
    /\ abortSignal = "none"
    /\ aborted = FALSE
    /\ store = EmptyStore
    /\ call = IdleCall
    /\ tasks = <<>>
    /\ trace = <<>>
    /\ batch = NoBatch
    /\ subscribers = NoSubscribers
    /\ observable = IdleObservable
    /\ retryNode = NoRetryNode
    /\ wrap = NoWrap

\* on(event, callback)
On(event, l) ==
    /\ script # <<>>
    /\ Head(script) = OnOp(event, l)
    /\ script' = Tail(script)
    /\ observable' = [observable EXCEPT !.listeners[event] = SetAdd(@, l)]
    /\ UNCHANGED <<nodes, connections, startNodes, executedNodes, abortSignal, aborted,
                   store, call, tasks, trace, wrap, batch, subscribers, retryNode>>

\* ObservableFlow.execute(options) up to its await: emit flow:start, outside the
\* try, then call flow.execute with the wrapped store
ObservableExecute(par, optInput) ==
    /\ script = <<>>
    /\ observable.pc = "idle"
    /\ call.phase = "idle"
    /\ LET e == EmitOutcome(observable.listeners, "flow:start", optInput)
       IN  IF e.threw
           THEN /\ observable' = [observable EXCEPT !.pc = "rejected",
                                                    !.outcome = Rejected(ReadTypeError)]
                /\ trace' = trace \o e.events
                /\ UNCHANGED <<script, nodes, connections, startNodes, executedNodes,
                               abortSignal, aborted, store, call, tasks, wrap, subscribers,
                               retryNode>>
           ELSE /\ observable' = [observable EXCEPT !.pc = "running"]
                /\ ExecuteFrom(call, trace \o e.events, par, "none", optInput)
    /\ UNCHANGED batch

\* what the process function of a node may do
ProcessOutcomes == Routes \cup {"throw", "reject"}

\* the value a process function throws
ProcessThrown(n, r) == IF r = "throw" THEN Err(n) ELSE Undefined

\* Node.execute with the wrapped store, once the process function settled:
\* store.set of the Proxy is target.set followed by emit('store:set'); a throw
\* of that emit inside the try lands in the catch of Node.execute, which calls
\* store.set again
ObservedNodeExecute(ls, st, n, r) ==
    IF r \in Routes
    THEN LET e == EmitOutcome(ls, "store:set", Out(n, r))
             st1 == StoreSet(st, OutputKey(n), Out(n, r))
         IN  IF e.threw
             THEN [store |-> StoreSet(st1, ErrorKey(n), ReadTypeError),
                   outcome |-> Rejected(ReadTypeError),
                   events |-> e.events \o
                              EmitOutcome(ls, "store:set", ReadTypeError).events]
             ELSE [store |-> st1, outcome |-> Resolved(Out(n, r)), events |-> e.events]
    ELSE LET e == EmitOutcome(ls, "store:set", ProcessThrown(n, r))
         IN  [store |-> StoreSet(st, ErrorKey(n), ProcessThrown(n, r)),
              outcome |-> IF e.threw THEN Rejected(ReadTypeError)
                          ELSE Rejected(ProcessThrown(n, r)),
              events |-> e.events]

\* the process function of the node on top of chain t settles
ObservedProcessSettles(t, r) ==
    /\ observable.pc = "running"
    /\ t \in 1..Len(tasks)
    /\ tasks[t] # <<>>
    /\ LET f == Last(tasks[t])
           x == ObservedNodeExecute(observable.listeners, store, f.node, r)
       IN  /\ f.pc = "awaitNode"
           /\ f.settled.st = "none"
           /\ store' = x.store
           /\ tasks' = [tasks EXCEPT ![t][Len(tasks[t])].settled = x.outcome]
           /\ trace' = trace \o
                 <<IF r \in Routes THEN Event("output", f.node, Out(f.node, r), 0, TRUE)
                   ELSE Event("error", f.node, ProcessThrown(f.node, r), 0, TRUE)>>
                 \o x.events
    /\ UNCHANGED <<script, nodes, connections, startNodes, executedNodes, abortSignal,
                   aborted, call, wrap, batch, subscribers, observable, retryNode>>

\* the step of executeNode read the stored output of a node it skipped
ReadSkipped(r) == r.events # <<>> /\ Last(r.events).ev = "skip"

\* the top frame of chain t resumes; the store.get of a skipped node goes
\* through the Proxy: target.get, then emit('store:get')
ObservedResume(t) ==
    /\ observable.pc = "running"
    /\ t \in 1..Len(tasks)
    /\ tasks[t] # <<>>
    /\ Last(tasks[t]).settled.st # "none"
    /\ LET r == ResumeStep(tasks[t], call.ids, executedNodes, abortSignal, store)
           e == EmitOutcome(observable.listeners, "store:get",
                            StoreGet(store, OutputKey(Last(r.events).node)))
           stack == IF ReadSkipped(r) /\ e.threw
                    THEN [r.stack EXCEPT ![Len(r.stack)].settled = Rejected(ReadTypeError)]
                    ELSE r.stack
           ends == /\ r.done.st # "none"
                   /\ call.phase = "running"
                   /\ (~call.parallel \/ r.done.st = "rejected")
       IN  /\ tasks' = [tasks EXCEPT ![t] = stack]
           /\ executedNodes' = r.executed
           /\ call' = IF ends THEN Settle(call, r.done) ELSE call
           /\ trace' = trace \o r.events
                       \o (IF ReadSkipped(r) THEN e.events ELSE <<>>)
                       \o (IF ends THEN <<SettleEvent(r.done)>> ELSE <<>>)
    /\ UNCHANGED <<script, nodes, connections, startNodes, abortSignal, aborted, store,
                   wrap, batch, subscribers, observable, retryNode>>

\* a parallel execute resumes after Promise.all and reads the outputs through
\* the Proxy, one store.get per start node
ObservedJoin ==
    /\ observable.pc = "running"
    /\ call.phase = "running"
    /\ call.parallel
    /\ \A t \in 1..Len(tasks) : tasks[t] = <<>>
    /\ LET out == ParallelResult(call.ids, store)
           e(i) == EmitOutcome(observable.listeners, "store:get", out[i])
       IN  IF e(1).threw
           THEN /\ call' = Settle(call, Rejected(ReadTypeError))
                /\ trace' = trace \o e(1).events
                                  \o <<SettleEvent(Rejected(ReadTypeError))>>
           ELSE /\ call' = [call EXCEPT !.phase = "resolved", !.results = out]
                /\ trace' = trace
                       \o (IF Len(out) > 1 THEN e(1).events \o e(2).events ELSE e(1).events)
                       \o <<Event("resolved", "", Undefined, 0, TRUE)>>
    /\ UNCHANGED <<script, nodes, connections, startNodes, executedNodes, abortSignal,
                   aborted, store, tasks, wrap, batch, subscribers, observable, retryNode>>

\* what the inner execute resolved to
InnerResult(c) == IF c.results # <<>> THEN ArrayOf(c.results) ELSE c.result

\* ObservableFlow.execute resumes after await this.flow.execute(...): the rest
\* of the try block, or the catch block
ObservableResume ==
    /\ observable.pc = "running"
    /\ call.phase \in {"resolved", "rejected"}
    /\ LET ls == observable.listeners
           done == EmitOutcome(ls, "flow:complete", InnerResult(call))
           caught == IF call.phase = "resolved" THEN ReadTypeError ELSE call.result
           fail == EmitOutcome(ls, "flow:error", caught)
           out == IF call.phase = "resolved" /\ ~done.threw
                  THEN Resolved(InnerResult(call))
                  ELSE IF ~MessageReadable(caught) \/ fail.threw
                  THEN Rejected(ReadTypeError)
                  ELSE Rejected(caught)
       IN  /\ observable' = [observable EXCEPT !.pc = out.st, !.outcome = out]
           /\ trace' = trace
                  \o (IF call.phase = "resolved" THEN done.events ELSE <<>>)
                  \o (IF (call.phase = "rejected" \/ done.threw) /\ MessageReadable(caught)
                      THEN fail.events ELSE <<>>)
                  \o <<Event("observed", "", out.val, 0, out.st = "resolved")>>
    /\ UNCHANGED <<script, nodes, connections, startNodes, executedNodes, abortSignal,
                   aborted, store, call, tasks, wrap, batch, subscribers, retryNode>>

NextObservable ==
    \/ \E n \in Nodes : AddNode(n)
    \/ \E from \in Nodes, to \in Nodes, cond \in CondKinds : Connect(from, to, cond)
    \/ \E event \in Range(EventNames), l \in Listeners : On(event, l)
    \/ \E par \in BOOLEAN, input \in Inputs : ObservableExecute(par, input)
    \/ \E t \in 1..Len(tasks), r \in ProcessOutcomes : ObservedProcessSettles(t, r)
    \/ \E t \in 1..Len(tasks) : ObservedResume(t)
    \/ ObservedJoin
    \/ ObservableResume

SpecObservable == InitObservable /\ [][NextObservable]_vars

(***************************************************************************)
(* Reading the history of an observed execute                              *)
(***************************************************************************)
Emitted(event) == {i \in Idx : IsOf(i, "emit", event)}

ObservableSettled == observable.pc \in {"resolved", "rejected"}

\* every thrown value of this behaviour is an Error: no listener that throws
\* undefined is registered and no process function rejected with undefined
OnlyErrorsThrown ==
    /\ \A k \in 1..Len(EventNames) : "worse" \notin Range(observable.listeners[EventNames[k]])
    /\ \A i \in 1..Len(script) : script[i].b # "worse"
    /\ \A i \in Idx : Is(i, "error") => MessageReadable(trace[i].val)

(***************************************************************************)
(* C24. Every ObservableFlow.execute call emits flow:start exactly once,   *)
(* before any node runs, and then exactly one of flow:complete (the inner  *)
(* execute resolved; carries the result) or flow:error (the inner execute  *)
(* rejected; carries the error), never both and never neither; after       *)
(* flow:error the call rejects with the error the inner Flow raised.       *)
(***************************************************************************)
C24_Lifecycle ==
    /\ observable.pc \in {"running", "resolved", "rejected"} =>
           /\ Cardinality(Emitted("flow:start")) = 1
           /\ \A i \in Idx : Is(i, "invoke") => \E j \in Emitted("flow:start") : j < i
    /\ Cardinality(Emitted("flow:complete")) + Cardinality(Emitted("flow:error")) <= 1
    /\ \A i \in Emitted("flow:complete") :
           /\ call.phase = "resolved"
           /\ trace[i].val = InnerResult(call)
    /\ \A i \in Emitted("flow:error") :
           /\ call.phase = "rejected"
           /\ trace[i].val = call.result
           /\ ObservableSettled => observable.outcome = Rejected(call.result)
    /\ ObservableSettled =>
           Cardinality(Emitted("flow:complete")) + Cardinality(Emitted("flow:error")) = 1

\* the history entries this step added
NewIdx == (Len(trace) + 1)..Len(trace')

\* after this step some call chain awaits with this outcome delivered for node n
DeliveredTo(n, outcome) ==
    \E t \in 1..Len(tasks') :
        /\ tasks'[t] # <<>>
        /\ Last(tasks'[t]).settled = outcome
        /\ Last(tasks'[t]).node = n

\* what the step does to the Flow, to the store and to the caller is what the
\* same step of Flow.execute does when no ObservableFlow is around the Flow
SameAsPlainStep ==
    /\ \A i \in NewIdx :
           /\ trace'[i].ev = "output" =>
                  /\ store' = NodeExecuteSuccess(store, trace'[i].node, trace'[i].val)
                  /\ DeliveredTo(trace'[i].node, Resolved(trace'[i].val))
           /\ trace'[i].ev = "error" =>
                  /\ store' = NodeExecuteFailure(store, trace'[i].node, trace'[i].val)
                  /\ DeliveredTo(trace'[i].node, Rejected(trace'[i].val))
           /\ trace'[i].ev = "skip" =>
                  \E t \in 1..Len(tasks') :
                      /\ tasks'[t] # <<>>
                      /\ Last(tasks'[t]).settled =
                             Resolved(StoreGet(store, OutputKey(trace'[i].node)))
           \* a throwing listener does not stop the other listeners of the event
           /\ trace'[i].ev = "emit" =>
                  \A k \in 1..trace'[i].edge :
                      /\ i + k <= Len(trace')
                      /\ trace'[i + k].ev = "listen"
    /\ (call.phase = "running" /\ call.parallel /\ Quiet /\ call' # call) =>
           /\ call'.phase = "resolved"
           /\ call'.results = ParallelResult(call.ids, store)
    /\ (observable.pc = "idle" /\ observable'.pc # "idle") => call'.phase # "idle"
    /\ (observable.pc = "running" /\ observable'.pc # "running") =>
           observable'.outcome = IF call.phase = "resolved"
                                 THEN Resolved(InnerResult(call))
                                 ELSE Rejected(call.result)

(***************************************************************************)
(* C25. ObservableFlow does not alter execution semantics: whatever the    *)
(* graph, the input and the registered listeners, listeners that throw     *)
(* included, every step of ObservableFlow.execute acts on the nodes, the   *)
(* store and the outcome as the step of the wrapped Flow.execute does, so  *)
(* the same nodes run in the same order, the call resolves to the same     *)
(* value or rejects with the same error, and the store ends with the same  *)
(* contents; a throwing listener does not stop the other listeners of the  *)
(* same event from being called.                                           *)
(***************************************************************************)
C25_SameSemantics == [][SameAsPlainStep]_vars

(***************************************************************************)
(* RetryNode: a Node whose process function counts failed attempts in the  *)
(* field attempts of the instance.  The caller constructs one RetryNode    *)
(* and calls its execute up to MaxNodeCalls times, with or without waiting *)
(* for the earlier calls: a call that retries sleeps delayMs before it     *)
(* returns, and the timers of one instance fire in the order they were     *)
(* set.                                                                    *)
(***************************************************************************)
MaxNodeCalls == 5

RetryNodeId == "retry"

\* an input: {error: ...}, {failed: ...} or an object with neither
RetryInput(mark) == [kind |-> "value", by |-> "caller", data |-> mark]

RetryInputs == {RetryInput("error"), RetryInput("failed"), RetryInput("plain")}

\* input.error || input.failed
HasError(input) == input.data \in {"error", "failed"}

\* {...input, retryFailed: true, attempts, maxRetries}
RetryFailedOutcome(input, attempts) ==
    [kind |-> "retryFailed", by |-> RetryNodeId, data |-> input.data, attempts |-> attempts]

\* {...input, retry: true, targetNode, attempt, maxRetries}
RetryOutcome(input, attempts) ==
    [kind |-> "retry", by |-> RetryNodeId, data |-> input.data, attempts |-> attempts]

\* the counter is never reset
AttemptsAfterSuccessKept(attempts) == attempts

\* this.attempts = 0
AttemptsAfterSuccess(attempts) == 0

\* this.attempts > this.maxRetries
RetriesExhausted(attempts, maxRetries) == attempts > maxRetries

InitRetryNode ==
    /\ script = <<>>
    /\ nodes = {}
    /\ connections = <<>>
    /\ startNodes = <<>>
    /\ executedNodes = {}
    /\ abortSignal = "none"
    /\ aborted = FALSE
    /\ store = EmptyStore
    /\ call = IdleCall
    /\ tasks = <<>>
    /\ trace = <<>>
    /\ batch = NoBatch
    /\ subscribers = NoSubscribers
    /\ observable = NoObservable
    /\ wrap = NoWrap
    /\ \E m \in 0..MaxRetriesBound :
           retryNode = [pc |-> "on", attempts |-> 0, maxRetries |-> m, calls |-> 0,
                        pending |-> <<>>]

retryRest == <<script, nodes, connections, startNodes, executedNodes, abortSignal,
               aborted, call, tasks, wrap, batch, subscribers, observable>>

\* retryNode.execute(input, store) up to the first await that leaves the
\* synchronous section: the process function resets or increments attempts,
\* then returns at once or sleeps; a returned value is stored by Node.execute
RetryNodeCall(input) ==
    /\ retryNode.pc = "on"
    /\ retryNode.calls < MaxNodeCalls
    /\ LET no == retryNode.calls + 1
           r  == [retryNode EXCEPT !.calls = no]
           n  == retryNode.attempts + 1
       IN  IF ~HasError(input)
           THEN /\ retryNode' = [r EXCEPT !.attempts = AttemptsAfterSuccess(@)]
                /\ store' = NodeExecuteSuccess(store, RetryNodeId, input)
                /\ trace' = trace \o <<Event("retryCall", RetryNodeId, input, no, FALSE),
                                       Event("retryReturn", RetryNodeId, input, no, TRUE)>>
           ELSE IF RetriesExhausted(n, retryNode.maxRetries)
           THEN /\ retryNode' = [r EXCEPT !.attempts = n]
                /\ store' = NodeExecuteSuccess(store, RetryNodeId, RetryFailedOutcome(input, n))
                /\ trace' = trace \o
                       <<Event("retryCall", RetryNodeId, input, no, TRUE),
                         Event("retryReturn", RetryNodeId, RetryFailedOutcome(input, n), no, TRUE)>>
           ELSE /\ retryNode' = [r EXCEPT !.attempts = n,
                                          !.pending = Append(@, [no |-> no, input |-> input])]
                /\ store' = store
                /\ trace' = Append(trace, Event("retryCall", RetryNodeId, input, no, TRUE))
    /\ UNCHANGED retryRest

\* the delay of the oldest sleeping call is over: it returns the retry outcome
\* with the value attempts has by now
RetryNodeDelayEnds ==
    /\ retryNode.pc = "on"
    /\ retryNode.pending # <<>>
    /\ LET p   == Head(retryNode.pending)
           out == RetryOutcome(p.input, retryNode.attempts)
       IN  /\ retryNode' = [retryNode EXCEPT !.pending = Tail(@)]
           /\ store' = NodeExecuteSuccess(store, RetryNodeId, out)
           /\ trace' = Append(trace, Event("retryReturn", RetryNodeId, out, p.no, TRUE))
    /\ UNCHANGED retryRest

NextRetryNode ==
    \/ \E input \in RetryInputs : RetryNodeCall(input)
    \/ RetryNodeDelayEnds

SpecRetryNode == InitRetryNode /\ [][NextRetryNode]_vars

(***************************************************************************)
(* Reading the history of the calls of the RetryNode                       *)
(***************************************************************************)
RetryCalls == {i \in Idx : Is(i, "retryCall")}

\* the error-marked calls up to entry i since the last call that was not
\* error-marked
ErrorRun(i) ==
    {j \in RetryCalls : /\ j <= i
                        /\ trace[j].flag
                        /\ \A k \in RetryCalls : (j < k /\ k <= i) => trace[k].flag}

\* the history entries at which call number no returned
ReturnsOf(no) == {m \in Idx : Is(m, "retryReturn") /\ trace[m].edge = no}

(***************************************************************************)
(* C26. The RetryNode keeps its attempt counter as instance state across   *)
(* the invocations of one instance: every call with an error-marked input  *)
(* increments it by one, every call with a non-error input resets it to    *)
(* zero, and once it exceeds maxRetries every further error-marked call    *)
(* returns the retry-failed outcome, never a retry outcome, until a        *)
(* non-error call resets it.  After any sequence of calls the counter is   *)
(* the number of consecutive error-marked calls since the last non-error   *)
(* call.                                                                   *)
(***************************************************************************)
C26_AttemptCounter ==
    /\ retryNode.attempts = Cardinality(ErrorRun(Len(trace)))
    /\ \A i \in RetryCalls :
           LET run == Cardinality(ErrorRun(i))
               no  == trace[i].edge
           IN  /\ Cardinality(ReturnsOf(no)) <= 1
               /\ \A m \in ReturnsOf(no) :
                      /\ m > i
                      /\ ~trace[i].flag => (trace[m].val = trace[i].val /\ m = i + 1)
                      /\ (trace[i].flag /\ run > retryNode.maxRetries) =>
                             /\ trace[m].val = RetryFailedOutcome(trace[i].val, run)
                             /\ m = i + 1
                      /\ (trace[i].flag /\ run <= retryNode.maxRetries) =>
                             trace[m].val.kind = "retry"
               /\ (~trace[i].flag \/ run > retryNode.maxRetries) => ReturnsOf(no) # {}

\* with maxRetries 1: two error-marked calls, the second fails for good; a
\* plain call resets the counter and the next error-marked call retries again
C26_Witness ==
    /\ retryNode.maxRetries = 1
    /\ \E i \in RetryCalls :
           /\ Cardinality(ErrorRun(i)) = 2
           /\ \E m \in ReturnsOf(trace[i].edge) : trace[m].val.kind = "retryFailed"
           /\ \E j \in RetryCalls :
                  /\ j > i
                  /\ ~trace[j].flag
                  /\ \E k \in RetryCalls :
                         /\ k > j
                         /\ trace[k].flag
                         /\ \E m \in ReturnsOf(trace[k].edge) : trace[m].val.kind = "retry"
    /\ retryNode.attempts = 1

(***************************************************************************)
(* Reading the history of a traversal                                      *)
(***************************************************************************)
\* the nodes whose process function has been invoked and has not settled
\* among the first q entries
InFlightBefore(q) ==
    {i \in 1..q : /\ Is(i, "invoke")
                  /\ ~\E m \in (i + 1)..q : /\ trace[m].ev \in {"output", "error"}
                                            /\ trace[m].node = trace[i].node}

\* the entries at which execute itself entered a start node
StartEntries == {i \in Idx : /\ trace[i].ev \in {"invoke", "skip", "abort", "missing"}
                             /\ trace[i].edge = 0}

\* the traversal that entry i began was over before entry q
OverBefore(i, q) ==
    \/ ~Is(i, "invoke")
    \/ \E m \in (i + 1)..(q - 1) : /\ trace[m].ev \in {"return", "throw"}
                                   /\ trace[m].node = trace[i].node

\* position of id in the list ids, 0 if it is not in it
PosIn(ids, id) ==
    IF id \in Range(ids) THEN CHOOSE k \in 1..Len(ids) : ids[k] = id ELSE 0

\* a step keeps the relative order of the ids in the start set and puts a new
\* id behind them
StartOrderKept ==
    \A a, b \in Range(startNodes') :
        (/\ PosIn(startNodes', a) < PosIn(startNodes', b)
         /\ b \in Range(startNodes)) =>
            /\ a \in Range(startNodes)
            /\ PosIn(startNodes, a) < PosIn(startNodes, b)

(***************************************************************************)
(* C27. In a sequential execute at most one process function is in flight *)
(* at any time: the start nodes are traversed strictly in registration     *)
(* order (the order of the start set, which every addNode extends at its   *)
(* end), each traversal finishing before the next begins; the outgoing     *)
(* edges of a node are handled in declaration order; and the condition of  *)
(* an edge is evaluated only after the whole subtree of the previously     *)
(* fired sibling edge has completed, so it sees that subtree's store       *)
(* writes.                                                                 *)
(***************************************************************************)
C27_Sequential ==
    /\ [][StartOrderKept]_vars
    /\ [](~call.parallel =>
            /\ \A q \in Idx : Cardinality(InFlightBefore(q)) <= 1
            /\ \A i, j \in StartEntries :
                   i < j => /\ PosIn(call.ids, trace[i].node) < PosIn(call.ids, trace[j].node)
                            /\ PosIn(call.ids, trace[i].node) > 0
                            /\ OverBefore(i, j)
            /\ \A p, q \in Idx :
                   (/\ p < q
                    /\ Is(p, "eval")
                    /\ IsOf(q, "eval", trace[p].node)) =>
                       /\ trace[p].edge < trace[q].edge
                       /\ trace[p].flag =>
                              /\ InFlightBefore(q) = {}
                              /\ \A i \in (p + 1)..(q - 1) : OverBefore(i, q)
                              /\ \A i \in (p + 1)..(q - 1) :
                                     Is(i, "output") =>
                                         StoreHas(store, OutputKey(trace[i].node)))

\* a sequential execute of a diamond: the second edge of A was looked at after
\* B and the node behind B had run and returned
C27_Witness ==
    /\ ~call.parallel
    /\ \E p, q \in Idx :
           /\ p < q
           /\ IsOf(p, "eval", "A") /\ trace[p].flag
           /\ IsOf(q, "eval", "A") /\ trace[q].flag
           /\ \E i, j \in (p + 1)..(q - 1) :
                  /\ i < j
                  /\ IsOf(i, "invoke", "B")
                  /\ IsOf(j, "return", "B")
                  /\ \E k \in (i + 1)..(j - 1) : IsOf(k, "invoke", "D")

\* the frames of call chain t that await a process function
AwaitingNode(t) == {k \in 1..Len(tasks[t]) : tasks[t][k].pc = "awaitNode"}

\* the entries at which a node downstream of an edge was started
DownstreamInvocations == {i \in Idx : Is(i, "invoke") /\ trace[i].edge # 0}

SpecFair ==
    /\ Spec
    /\ WF_vars(\E t \in 1..Len(tasks), r \in Routes \cup {"throw"} : ProcessSettles(t, r))
    /\ WF_vars(\E t \in 1..Len(tasks) : Resume(t))
    /\ WF_vars(Join)

(***************************************************************************)
(* C29. Termination: for every finite graph, graphs with cycles and        *)
(* self-edges included, if every process function and every edge condition *)
(* terminates, every execute call eventually resolves or rejects, and the  *)
(* traversal comes to rest: it never loops forever.                        *)
(***************************************************************************)
C29_Termination == (call.phase # "idle") ~> (Settled /\ Quiet)

\* the call resolved on the graph A -> B -> C -> B: the edge back to B was
\* followed once and B was not run again
C29_Witness ==
    /\ call.phase = "resolved"
    /\ Quiet
    /\ \E i \in 1..Len(connections) : connections[i].from = "C" /\ connections[i].to = "B"
    /\ \E i \in Idx : IsOf(i, "skip", "B")
    /\ Cardinality(Invocations("B")) = 1

(***************************************************************************)
(* C30. An execute call is terminal on the first unhandled node failure:   *)
(* once the call has rejected, its traversal starts no further node and    *)
(* makes no further write to the store, in sequential mode and in parallel *)
(* mode alike: the traversals of the other start nodes do not go on to run *)
(* their downstream nodes after the call has rejected.                     *)
(***************************************************************************)
C30_TerminalOnFailure ==
    \A i \in Idx :
        Is(i, "rejected") =>
            \A m \in (i + 1)..Len(trace) : trace[m].ev \notin {"invoke", "output", "error"}

(***************************************************************************)
(* Flow.batch with parallel: true: one execute per item, all called in the *)
(* same synchronous section on the one Flow object, then Promise.all. The  *)
(* call chain of item i is tasks[i]; the executed marks and the abort      *)
(* signal are the fields of the Flow that every one of the executes uses.  *)
(* The history keeps the events of one item together, in the order they    *)
(* happened, behind the dispatch event of the item.                        *)
(***************************************************************************)
MaxParallelItems == 2

ParallelItemLists == UNION {[1..n -> ItemValues] : n \in 0..MaxParallelItems}

ParallelBatchPrograms ==
    { <<>>,
      AddAll(<<"A">>),
      AddAll(<<"A", "B">>) \o <<ConnectOp("A", "B", "none")>>,
      AddAll(<<"A", "B">>),
      AddAll(<<"A">>) \o <<ConnectOp("A", "A", "none")>> }

InitParallelBatch ==
    /\ script \in ParallelBatchPrograms
    /\ nodes = {}
    /\ connections = <<>>
    /\ startNodes = <<>>
    /\ executedNodes = {}
    /\ abortSignal = "none"
    /\ aborted = FALSE
    /\ store = EmptyStore
    /\ call = IdleCall
    /\ tasks = <<>>
    /\ trace = <<>>
    /\ batch = NoBatch
    /\ subscribers = NoSubscribers
    /\ observable = NoObservable
    /\ retryNode = NoRetryNode
    /\ wrap = NoWrap

\* a process function that returns what it was given, stamped with its node
Echo(n, input) == [kind |-> "value", by |-> n, data |-> input.data]

\* the first promise of the list to reject, in settling order, decides
\* Promise.all; it resolves when every promise has resolved
PromiseAll(b, outcomes, t) ==
    IF b.phase # "running" THEN [b EXCEPT !.outcomes = outcomes]
    ELSE IF outcomes[t].st = "rejected"
    THEN [b EXCEPT !.outcomes = outcomes, !.phase = "rejected", !.error = outcomes[t].val]
    ELSE IF \A i \in 1..Len(outcomes) : outcomes[i].st = "resolved"
    THEN [b EXCEPT !.outcomes = outcomes, !.phase = "resolved",
                   !.results = [i \in 1..Len(outcomes) |-> outcomes[i].val]]
    ELSE [b EXCEPT !.outcomes = outcomes]

\* the history with the events evs of item t added to the events of item t
LogFor(tr, t, evs) ==
    LET after == {i \in 1..Len(tr) : tr[i].ev = "dispatch" /\ tr[i].edge = t + 1}
        pos   == IF after = {} THEN Len(tr) + 1 ELSE CHOOSE i \in after : TRUE
    IN  SubSeq(tr, 1, pos - 1) \o evs \o SubSeq(tr, pos, Len(tr))

RECURSIVE Flatten(_)
Flatten(ss) == IF ss = <<>> THEN <<>> ELSE Head(ss) \o Flatten(Tail(ss))

\* items.map((item) => this.execute({input: item, store, abortSignal})) and
\* return Promise.all(promises): every execute runs up to its first await
ParallelBatchCall(items, sig) ==
    /\ script = <<>>
    /\ call.phase = "idle"
    /\ batch = NoBatch
    /\ abortSignal' = sig
    /\ LET ids      == StartNodeIds(startNodes)
           input(i) == InputOrDefault(items[i])
           seq(i)   == RunLoop(<<>>, ExecuteFrame(input(i), ids), ids,
                               ExecutedAtStart(executedNodes), sig, store)
           first(i) == IF NoNodes(nodes) THEN Resolved(input(i))
                       ELSE IF NoStartNodes(startNodes) THEN Rejected(NoStartError)
                       ELSE Pending
           walks    == ~NoNodes(nodes) /\ ~NoStartNodes(startNodes)
           outs     == [i \in 1..Len(items) |-> first(i)]
           b0       == [phase |-> "running", parallel |-> TRUE, sig |-> sig,
                        items |-> items, next |-> Len(items) + 1, results |-> <<>>,
                        error |-> Undefined,
                        outcomes |-> [i \in 1..Len(items) |-> Pending]]
           b1       == IF items = <<>> THEN [b0 EXCEPT !.phase = "resolved"]
                       ELSE IF ~walks /\ first(1).st = "rejected"
                       THEN PromiseAll(b0, outs, 1)
                       ELSE PromiseAll(b0, outs, Len(items))
       IN  /\ batch' = b1
           /\ tasks' = [i \in 1..Len(items) |-> IF walks THEN seq(i).stack ELSE <<>>]
           /\ executedNodes' = IF items = <<>> THEN executedNodes
                               ELSE IF walks THEN seq(Len(items)).executed
                               ELSE ExecutedAtStart(executedNodes)
           /\ trace' = trace
                       \o Flatten([i \in 1..Len(items) |->
                                     <<Event("dispatch", "", items[i], i, TRUE)>>
                                     \o (IF walks THEN seq(i).events
                                         ELSE <<SettleEvent(first(i))>>)])
    /\ UNCHANGED <<script, nodes, connections, startNodes, aborted, store, call, wrap,
                   subscribers, observable, retryNode>>

\* the process function of the node on top of the chain of item t settles:
\* it returns its input or throws, and Node.execute records the outcome
EchoProcessSettles(t, ok) ==
    /\ t \in 1..Len(tasks)
    /\ tasks[t] # <<>>
    /\ LET f == Last(tasks[t])
           v == IF ok THEN Echo(f.node, f.input) ELSE Err(f.node)
       IN  /\ f.pc = "awaitNode"
           /\ f.settled.st = "none"
           /\ store' = IF ok THEN NodeExecuteSuccess(store, f.node, v)
                       ELSE NodeExecuteFailure(store, f.node, v)
           /\ tasks' = [tasks EXCEPT ![t][Len(tasks[t])].settled =
                                         IF ok THEN Resolved(v) ELSE Rejected(v)]
           /\ trace' = LogFor(trace, t, <<Event(IF ok THEN "output" ELSE "error",
                                                f.node, v, 0, TRUE)>>)
    /\ UNCHANGED <<script, nodes, connections, startNodes, executedNodes, abortSignal,
                   aborted, call, wrap, batch, subscribers, observable, retryNode>>

\* the top frame of the chain of item t resumes; when the execute of item t
\* ends, its promise settles and Promise.all looks at the list
ItemResume(t) ==
    /\ batch # NoBatch
    /\ t \in 1..Len(tasks)
    /\ tasks[t] # <<>>
    /\ Last(tasks[t]).settled.st # "none"
    /\ LET r  == ResumeStep(tasks[t], StartNodeIds(startNodes), executedNodes,
                            abortSignal, store)
           b1 == IF r.done.st = "none" THEN batch
                 ELSE PromiseAll(batch, [batch.outcomes EXCEPT ![t] = r.done], t)
       IN  /\ tasks' = [tasks EXCEPT ![t] = r.stack]
           /\ executedNodes' = r.executed
           /\ batch' = b1
           /\ trace' = LogFor(trace, t,
                              r.events \o (IF r.done.st = "none" THEN <<>>
                                           ELSE <<SettleEvent(r.done)>>))
    /\ UNCHANGED <<script, nodes, connections, startNodes, abortSignal, aborted, store,
                   call, wrap, subscribers, observable, retryNode>>

\* the caller triggers the abort signal, before the batch call or while an
\* item is under way
AbortBatch ==
    /\ ~aborted
    /\ script = <<>>
    /\ batch = NoBatch \/ \E t \in 1..Len(tasks) : tasks[t] # <<>>
    /\ aborted' = TRUE
    /\ trace' = IF batch = NoBatch
                THEN Append(trace, Event("aborted", "", Undefined, 0, TRUE))
                ELSE trace
    /\ UNCHANGED <<script, nodes, connections, startNodes, executedNodes, abortSignal,
                   store, call, tasks, wrap, batch, subscribers, observable, retryNode>>

NextParallelBatch ==
    \/ \E n \in Nodes : AddNode(n)
    \/ \E from \in Nodes, to \in Nodes, cond \in CondKinds : Connect(from, to, cond)
    \/ \E items \in ParallelItemLists, sig \in {"none", "s"} : ParallelBatchCall(items, sig)
    \/ \E t \in 1..Len(tasks), ok \in BOOLEAN : EchoProcessSettles(t, ok)
    \/ \E t \in 1..Len(tasks) : ItemResume(t)
    \/ AbortBatch

SpecParallelBatch == InitParallelBatch /\ [][NextParallelBatch]_vars

\* what execute({input: v}) alone resolves to on the built graph when every
\* node returns its input: the value, stamped by the node that returns last
StandAloneResult(v) ==
    IF NoNodes(nodes) THEN InputOrDefault(v)
    ELSE LET last == Last(startNodes)
             out  == OutgoingConnections(connections, last)
         IN  IF out = <<>> THEN Echo(last, InputOrDefault(v))
             ELSE Echo(connections[Last(out)].to, InputOrDefault(v))

(***************************************************************************)
(* C31. In a parallel batch on a Flow of several nodes the executes of the *)
(* items do not disturb each other through the executed marks: in the      *)
(* traversal of every item that resolved, every node the traversal reaches *)
(* was invoked for that item, once and with the value of that item, and    *)
(* the i-th result of the batch is the traversal result of item i.         *)
(***************************************************************************)
C31_ParallelItemsIsolated ==
    (batch # NoBatch /\ ~aborted) =>
        \A k \in 1..Len(batch.items) :
            /\ batch.outcomes[k].st = "resolved" =>
                   \A n \in nodes :
                       /\ Cardinality(InvokedIn(k, n)) = 1
                       /\ \A j \in InvokedIn(k, n) : trace[j].val.data = batch.items[k].data
            /\ batch.phase = "resolved" => batch.results[k] = StandAloneResult(batch.items[k])

\* the positions of the history at which executeNode found the signal triggered
NodeBoundaryAborts == {i \in Idx : Is(i, "abort")}

(***************************************************************************)
(* C32. In a sequential batch that was given the abort signal, no execute  *)
(* of an item is started once the signal is triggered. When the loop finds *)
(* the signal triggered before it dispatches item k, batch resolves to the *)
(* results of the items before k, in item order; when executeNode finds it *)
(* triggered inside the traversal of an item, batch rejects with the       *)
(* cancellation error.                                                     *)
(***************************************************************************)
C32_SequentialAbort ==
    (batch # NoBatch /\ batch.sig = "s") =>
    /\ \A i \in Idx : Is(i, "dispatch") => \A j \in 1..i : ~Is(j, "aborted")
    /\ batch.phase = "resolved" =>
           /\ NodeBoundaryAborts = {}
           /\ Len(batch.results) = batch.next - 1
           /\ Len(batch.results) < Len(batch.items) => aborted
           /\ \A k \in 1..Len(batch.results) :
                  \E i \in ExecuteResults(k) :
                      Is(i, "resolved") /\ trace[i].val = batch.results[k]
    /\ (NodeBoundaryAborts # {} /\ batch.phase # "running") =>
           /\ batch.phase = "rejected"
           /\ batch.error = AbortError
           /\ aborted
    /\ (batch.phase = "rejected" /\ batch.error = AbortError) => NodeBoundaryAborts # {}

\* the signal was triggered while the second of three items was under way
\* and after its last node boundary: batch resolved to two results
C32_Witness ==
    /\ batch # NoBatch
    /\ batch.sig = "s"
    /\ aborted
    /\ batch.phase = "resolved"
    /\ Len(batch.items) = 3
    /\ Len(batch.results) = 2
    /\ connections # <<>>

\* the signal was triggered before batch was called
TriggeredBeforeBatch == trace # <<>> /\ trace[1].ev = "aborted"

\* the executes of the batch walk a graph
BatchWalks == ~NoNodes(nodes) /\ ~NoStartNodes(startNodes)

(***************************************************************************)
(* C33, as the code has it. A parallel batch makes no cancellation check   *)
(* of its own: execute is called for every item. The signal is checked at  *)
(* every node boundary: when it was triggered before batch was called, on  *)
(* a graph with a start node, no node is invoked for any item, the execute *)
(* of every item stops at its first start node and batch can only reject,  *)
(* with the cancellation error; when it was not, or batch was not given    *)
(* the signal, the first start node has been invoked once for every item   *)
(* by the time batch returns its promise.                                  *)
(***************************************************************************)
C33_ParallelAbort ==
    batch # NoBatch =>
    /\ Dispatched = 1..Len(batch.items)
    /\ \A k \in 1..Len(batch.items) : trace[DispatchIdx(k)].val = batch.items[k]
    /\ (BatchWalks /\ TriggeredBeforeBatch /\ batch.sig = "s") =>
           /\ \A i \in Idx : ~Is(i, "invoke")
           /\ \A k \in 1..Len(batch.items) :
                  /\ \E i \in Segment(k) : IsOf(i, "abort", Head(startNodes))
                  /\ batch.outcomes[k].st # "resolved"
                  /\ batch.outcomes[k].st = "rejected" => batch.outcomes[k].val = AbortError
           /\ batch.items # <<>> => batch.phase # "resolved"
           /\ batch.phase = "rejected" => batch.error = AbortError
    /\ (BatchWalks /\ ~(TriggeredBeforeBatch /\ batch.sig = "s")) =>
           \A k \in 1..Len(batch.items) :
               Cardinality(InvokedIn(k, Head(startNodes))) = 1

\* two items on the chain A -> B under a signal triggered beforehand: batch
\* rejected with the cancellation error and nothing was invoked
C33_Witness ==
    /\ batch # NoBatch
    /\ TriggeredBeforeBatch
    /\ batch.sig = "s"
    /\ connections # <<>>
    /\ BatchWalks
    /\ Len(batch.items) = 2
    /\ batch.phase = "rejected"
    /\ batch.error = AbortError
    /\ \A t \in 1..Len(tasks) : tasks[t] = <<>>
    /\ \A i \in Idx : ~Is(i, "invoke")

\* C33 as stated: the signal never keeps the start node of an item from
\* being started
C33_AsStated ==
    (batch # NoBatch /\ BatchWalks) =>
        \A k \in 1..Len(batch.items) : InvokedIn(k, Head(startNodes)) # {}

\* in this step the wrapped node started by call c of the withTimeout wrapper
\* settles after the race of call c was decided
LateCompletion(c) ==
    /\ c \in 1..Len(wrap.inners)
    /\ wrap.inners[c] = "inflight"
    /\ wrap'.inners[c] = "settled"
    /\ ~(c = wrap.calls + 1 /\ wrap.pc = "racing")

\* the stores st and su hold the same under every key but those of keys
SameBut(st, su, keys) ==
    /\ (DOMAIN st) \ keys = (DOMAIN su) \ keys
    /\ \A k \in (DOMAIN st) \ keys : st[k] = su[k]

(***************************************************************************)
(* C34. withTimeout does not cancel the wrapped node. When the wrapped     *)
(* node settles after the race of its call was decided, its Node.execute   *)
(* still writes the outcome under node:<wrappedId>:output or under         *)
(* node:<wrappedId>:error, and nothing else changes: not the result of the *)
(* wrapper and not what the store holds for <wrappedId>_with_timeout.      *)
(* Once a call of the wrapper has resolved, the store holds its result at  *)
(* node:<wrappedId>_with_timeout:output until the wrapper is called again. *)
(***************************************************************************)
C34_LateCompletion ==
    /\ [][\A c \in CallNos :
            LateCompletion(c) =>
                LET e == trace'[Len(trace')]
                IN  /\ wrap'.pc = wrap.pc
                    /\ wrap'.settled = wrap.settled
                    /\ wrap'.calls = wrap.calls
                    /\ e.node = Inner /\ e.edge = c
                    /\ e.ev = "output" =>
                           /\ StoreGet(store', OutputKey(Inner)) = e.val
                           /\ SameBut(store, store', {OutputKey(Inner)})
                    /\ e.ev = "error" =>
                           /\ StoreGet(store', ErrorKey(Inner)) = e.val
                           /\ SameBut(store, store', {ErrorKey(Inner)})
                    /\ e.ev \in {"output", "error"}]_vars
    /\ [](wrap.pc = "done" =>
            \A s \in WrapperResults(wrap.calls) :
                Is(s, "wresolved") => StoreGet(store, OutputKey(TimeoutId)) = trace[s].val)

\* the wrapper resolved to the value of the fallback, and afterwards the
\* wrapped node of the same call returned and its output was written
C34_Witness ==
    /\ wrap.kind = "timeout"
    /\ wrap.pc = "done"
    /\ wrap.calls = 1
    /\ wrap.settled = Resolved(FallbackValue)
    /\ StoreGet(store, OutputKey(TimeoutId)) = FallbackValue
    /\ StoreHas(store, OutputKey(Inner))
    /\ \E s \in WrapperResults(1) :
           \E j \in InnerSettled(1) : s < j /\ Is(j, "output")

(***************************************************************************)
(* withFallback(withRetry(N, k, d), f): the node made by withFallback      *)
(* around the node made by withRetry, called directly, one call after the  *)
(* other. wrap is the state of the retry wrapper; wrap.outer is that of    *)
(* the fallback wrapper around it.                                         *)
(***************************************************************************)
ComposedId == "N_with_retry_with_fallback"

InitComposed ==
    /\ script = <<>>
    /\ nodes = {}
    /\ connections = <<>>
    /\ startNodes = <<>>
    /\ executedNodes = {}
    /\ abortSignal = "none"
    /\ aborted = FALSE
    /\ store = EmptyStore
    /\ call = IdleCall
    /\ tasks = <<>>
    /\ trace = <<>>
    /\ batch = NoBatch
    /\ subscribers = NoSubscribers
    /\ observable = NoObservable
    /\ retryNode = NoRetryNode
    /\ \E m \in 0..MaxRetriesBound :
           wrap = [kind |-> "retry", pc |-> "idle", id |-> RetryId, maxRetries |-> m,
                   shouldRetry |-> "always", attempt |-> 0, lastError |-> Undefined,
                   settled |-> Pending, input |-> Undefined, calls |-> 0,
                   outer |-> [pc |-> "idle", settled |-> Pending]]

\* execute(input, store) of the node made by withFallback: it calls execute
\* of the retry node, which runs up to its first await
ComposedCall(input) ==
    /\ wrap.outer.pc \in {"idle", "done"}
    /\ wrap.calls < MaxCalls
    /\ LET w == [wrap EXCEPT !.input = input, !.lastError = Undefined,
                             !.outer = [pc |-> "awaitInner", settled |-> Pending]]
           a == FirstAttempt(wrap.attempt)
       IN  /\ wrap' = RetryLoopHead(w, a)
           /\ trace' = <<Event("fcall", ComposedId, input, wrap.calls + 1, TRUE),
                         Event("wcall", RetryId, input, wrap.calls + 1, TRUE)>>
                       \o RetryLoopEvents(w, a)
    /\ UNCHANGED <<flowVars, store>>

\* withFallback resumes after await originalNode.execute, the retry node:
\* return its result, or call fallbackFn(error, input, store)
ComposedResume ==
    /\ wrap.outer.pc = "awaitInner"
    /\ wrap.pc = "done"
    /\ IF wrap.settled.st = "rejected" /\ FallbackCatches(wrap.settled.val)
       THEN /\ wrap' = [wrap EXCEPT !.outer.pc = "awaitFallback"]
            /\ trace' = trace \o
                   <<Event("fallback", ComposedId, wrap.settled.val, wrap.calls, TRUE),
                     Event("fallbackInput", ComposedId, wrap.input, wrap.calls, TRUE)>>
       ELSE /\ wrap' = [wrap EXCEPT !.outer = [pc |-> "processSettled",
                                               settled |-> wrap.settled]]
            /\ trace' = trace
    /\ UNCHANGED <<flowVars, store>>

\* fallbackFn(error, input, store) returns or throws
ComposedFallbackSettles(ok) ==
    /\ wrap.outer.pc = "awaitFallback"
    /\ wrap' = [wrap EXCEPT !.outer = [pc |-> "processSettled",
                                       settled |-> IF ok THEN Resolved(FallbackValue)
                                                   ELSE Rejected(FallbackError)]]
    /\ trace' = Append(trace, Event(IF ok THEN "fbvalue" ELSE "fberror", ComposedId,
                                    IF ok THEN FallbackValue ELSE FallbackError,
                                    wrap.calls, TRUE))
    /\ UNCHANGED <<flowVars, store>>

\* Node.execute of the composed node: its process function has settled
ComposedSettles ==
    /\ wrap.outer.pc = "processSettled"
    /\ store' = IF wrap.outer.settled.st = "resolved"
                THEN NodeExecuteSuccess(store, ComposedId, wrap.outer.settled.val)
                ELSE NodeExecuteFailure(store, ComposedId, wrap.outer.settled.val)
    /\ wrap' = [wrap EXCEPT !.outer.pc = "done"]
    /\ trace' = Append(trace, Event(IF wrap.outer.settled.st = "resolved"
                                    THEN "cresolved" ELSE "crejected",
                                    ComposedId, wrap.outer.settled.val, wrap.calls, TRUE))
    /\ UNCHANGED flowVars

NextComposed ==
    \/ \E input \in Inputs : ComposedCall(input)
    \/ \E v \in Routes : RetryAttemptSettles(TRUE, v)
    \/ \E m \in InnerErrors : RetryAttemptSettles(FALSE, m)
    \/ RetryResume
    \/ RetryDelayElapses
    \/ WrapperSettles
    \/ ComposedResume
    \/ \E ok \in BOOLEAN : ComposedFallbackSettles(ok)
    \/ ComposedSettles

SpecComposed == InitComposed /\ [][NextComposed]_vars

\* the history of the current call of the composed node
InnerInvocations == {i \in Idx : IsOf(i, "invoke", Inner)}

InnerFailures == {i \in Idx : IsOf(i, "error", Inner)}

InnerSuccesses == {i \in Idx : IsOf(i, "output", Inner)}

(***************************************************************************)
(* C35. For withFallback(withRetry(n, k, d), f): n is invoked at most      *)
(* k + 1 times in a call; f is invoked at most once, and only after k + 1  *)
(* invocations of n that all failed, with the error of the last of them;   *)
(* when n failed k + 1 times the call ends with f invoked once and the     *)
(* composed node resolves to the value f returns; when an attempt of n     *)
(* succeeds, f is not invoked and the composed node resolves to the        *)
(* output of that attempt.                                                 *)
(***************************************************************************)
C35_FallbackAroundRetry ==
    LET k == wrap.maxRetries
    IN  /\ Cardinality(InnerInvocations) <= k + 1
        /\ Cardinality(FbCalls) <= 1
        /\ Cardinality(InnerSuccesses) <= 1
        /\ \A i \in FbCalls :
               /\ Cardinality({j \in InnerInvocations : j < i}) = k + 1
               /\ Cardinality({j \in InnerFailures : j < i}) = k + 1
               /\ InnerSuccesses = {}
               /\ trace[i].val = trace[Max(InnerFailures)].val
               /\ trace[i + 1].val = wrap.input
        /\ Cardinality(InnerFailures) = k + 1 =>
               /\ wrap.outer.pc \in {"awaitFallback", "processSettled", "done"}
                      => Cardinality(FbCalls) = 1
               /\ \A s \in Idx : Is(s, "cresolved") =>
                      /\ trace[s].val = FallbackValue
                      /\ \E f \in FbResults : f < s /\ Is(f, "fbvalue")
                      /\ StoreGet(store, OutputKey(ComposedId)) = FallbackValue
               /\ \A f \in FbResults : Is(f, "fbvalue") =>
                      \A s \in Idx : ~Is(s, "crejected")
        /\ \A j \in InnerSuccesses :
               /\ FbCalls = {}
               /\ \A s \in Idx : trace[s].ev \in {"cresolved", "crejected"} =>
                      Is(s, "cresolved") /\ trace[s].val = trace[j].val

\* k = 2: three attempts failed, each with another error, then f was called
\* with the last of the errors and the composed node resolved to f's value
C35_Witness ==
    /\ "outer" \in DOMAIN wrap
    /\ wrap.maxRetries = 2
    /\ wrap.outer.pc = "done"
    /\ wrap.outer.settled = Resolved(FallbackValue)
    /\ Cardinality(InnerFailures) = 3
    /\ \E i \in FbCalls : trace[i].val = InnerErr("fatal")
    /\ \E j \in InnerFailures : trace[j].val = InnerErr("t1")

(***************************************************************************)
(* ObservableFlow: the process function of a node uses the store it was    *)
(* handed, which is the Proxy. A method the Proxy does not trap is the     *)
(* method of the target called with the Proxy as this, so what append      *)
(* calls on this (get, set) goes through the traps, and what it does to    *)
(* the array it read does not. The listeners here return.                  *)
(***************************************************************************)
MaxProxyOps == 2

ProxyOps == {"set", "delete", "append", "clear"}

ProxyKey == UserKey("k1")

ProxyValue == [kind |-> "value", by |-> "node", data |-> "v"]

ObservedStorePrograms ==
    {g \o l : g \in {AddAll(<<"A">>), AddAll(<<"A", "B">>) \o <<ConnectOp("A", "B", "none")>>},
              l \in {<<>>, <<OnOp("*", "log")>>,
                     <<OnOp("store:set", "log"), OnOp("store:delete", "log")>>}}

InitObservedStore ==
    /\ script \in ObservedStorePrograms
    /\ nodes = {}
    /\ connections = <<>>
    /\ startNodes = <<>>
    /\ executedNodes = {}
    /\ abortSignal = "none"
    /\ aborted = FALSE
    /\ store = EmptyStore
    /\ call = IdleCall
    /\ tasks = <<>>
    /\ trace = <<>>
    /\ batch = NoBatch
    /\ subscribers = NoSubscribers
    /\ observable = IdleObservable
    /\ retryNode = NoRetryNode
    /\ wrap = NoWrap

\* the calls the process functions made on the store so far
ProxyCalls == {i \in Idx : trace[i].ev = "proxy"}

\* wrappedStore[op](ProxyKey, ProxyValue) with listeners ls on the store st:
\* what the target holds afterwards and the events emitted
ProxyCall(ls, st, op) ==
    CASE op = "set" ->
           [store |-> StoreSet(st, ProxyKey, ProxyValue),
            events |-> EmitOutcome(ls, "store:set", ProxyValue).events]
      [] op = "delete" ->
           [store |-> StoreDelete(st, ProxyKey),
            events |-> EmitOutcome(ls, "store:delete", Undefined).events]
      [] op = "append" ->
           [store |-> StoreAppend(st, ProxyKey, ProxyValue),
            events |-> EmitOutcome(ls, "store:get", StoreGet(st, ProxyKey)).events
                       \o (IF IsArray(StoreGet(st, ProxyKey)) THEN <<>>
                           ELSE EmitOutcome(ls, "store:set",
                                            ArrayOf(<<ProxyValue>>)).events)]
      [] OTHER ->
           [store |-> EmptyStore, events |-> <<>>]

\* the process function of the node on top of chain t, still running, calls
\* a method of the store it was handed
ProcessUsesStore(t, op) ==
    /\ observable.pc = "running"
    /\ t \in 1..Len(tasks)
    /\ tasks[t] # <<>>
    /\ Last(tasks[t]).pc = "awaitNode"
    /\ Last(tasks[t]).settled.st = "none"
    /\ Cardinality(ProxyCalls) < MaxProxyOps
    /\ LET x == ProxyCall(observable.listeners, store, op)
       IN  /\ store' = x.store
           /\ trace' = trace
                       \o <<Event("proxy", Last(tasks[t]).node,
                                  [kind |-> "call", by |-> "store", data |-> op],
                                  Cardinality(ProxyCalls) + 1, TRUE)>>
                       \o x.events
    /\ UNCHANGED <<script, nodes, connections, startNodes, executedNodes, abortSignal,
                   aborted, call, tasks, wrap, batch, subscribers, observable, retryNode>>

NextObservedStore ==
    \/ \E n \in Nodes : AddNode(n)
    \/ \E from \in Nodes, to \in Nodes, cond \in CondKinds : Connect(from, to, cond)
    \/ \E event \in Range(EventNames), l \in Listeners : On(event, l)
    \/ \E par \in BOOLEAN, input \in Inputs : ObservableExecute(par, input)
    \/ \E t \in 1..Len(tasks), op \in ProxyOps : ProcessUsesStore(t, op)
    \/ \E t \in 1..Len(tasks), r \in ProcessOutcomes : ObservedProcessSettles(t, r)
    \/ \E t \in 1..Len(tasks) : ObservedResume(t)
    \/ ObservedJoin
    \/ ObservableResume

SpecObservedStore == InitObservedStore /\ [][NextObservedStore]_vars

\* the store events emitted in this step
StoreEventsInStep(names) ==
    {i \in (Len(trace) + 1)..Len(trace') :
         trace'[i].ev = "emit" /\ trace'[i].node \in names}

(***************************************************************************)
(* C36. During an observed execute every change of the content of the      *)
(* store that comes through the store handed to the nodes is accompanied   *)
(* by a store event: no step changes what the store holds without emitting *)
(* store:set or store:delete.                                              *)
(***************************************************************************)
C36_StoreChangesReported ==
    [][(observable.pc = "running" /\ store' # store) =>
           StoreEventsInStep({"store:set", "store:delete"}) # {}]_vars

(***************************************************************************)
(* AgentFlow.createFlow: the graph                                         *)
(*     init -> agent -> process_response -> tool_execution -> loop_check   *)
(* with the edge loop_check -> agent under the condition                   *)
(* !data.completed && data.continueExecution. The output of loop_check is  *)
(* route c for {completed: false, continueExecution: true} and route b for *)
(* {completed: true, ...}; run() executes the Flow once, sequentially.     *)
(***************************************************************************)
AgentNodeIds == {"init", "agent", "process_response", "tool_execution", "loop_check"}

ContinueExecution == "c"

AgentProgram ==
    AddAll(<<"init", "agent", "process_response", "tool_execution", "loop_check">>)
    \o <<ConnectOp("init", "agent", "none"),
         ConnectOp("agent", "process_response", "none"),
         ConnectOp("process_response", "tool_execution", "none"),
         ConnectOp("tool_execution", "loop_check", "none"),
         ConnectOp("loop_check", "agent", ContinueExecution)>>

InitAgent ==
    /\ script = AgentProgram
    /\ nodes = {}
    /\ connections = <<>>
    /\ startNodes = <<>>
    /\ executedNodes = {}
    /\ abortSignal = "none"
    /\ aborted = FALSE
    /\ store = EmptyStore
    /\ call = IdleCall
    /\ tasks = <<>>
    /\ trace = <<>>
    /\ batch = NoBatch
    /\ subscribers = NoSubscribers
    /\ observable = NoObservable
    /\ retryNode = NoRetryNode
    /\ wrap = NoWrap

NextAgent ==
    \/ \E n \in AgentNodeIds : AddNode(n)
    \/ \E from \in AgentNodeIds, to \in AgentNodeIds, cond \in CondKinds :
           Connect(from, to, cond)
    \/ \E input \in Inputs : Execute(FALSE, "none", input)
    \/ \E t \in 1..Len(tasks), r \in Routes \cup {"throw"} : ProcessSettles(t, r)
    \/ \E t \in 1..Len(tasks) : Resume(t)

SpecAgent == InitAgent /\ [][NextAgent]_vars

(***************************************************************************)
(* C37. In a run of the AgentFlow graph, whenever loop_check returns       *)
(* completed = false and continueExecution = true, the agent node is       *)
(* executed again in the same run: once the run has ended, every such      *)
(* output of loop_check is followed by an invocation of agent.             *)
(***************************************************************************)
C37_LoopRunsAgentAgain ==
    (Settled /\ Quiet) =>
        \A i \in Idx :
            (IsOf(i, "output", "loop_check") /\ trace[i].val.data = ContinueExecution) =>
                \E j \in (i + 1)..Len(trace) : IsOf(j, "invoke", "agent")

\* in this step the executeNode call on top of chain t found its target in
\* the executed set and took the stored output for the result
SkipsOn(t) ==
    /\ t \in 1..Len(tasks')
    /\ tasks'[t] # tasks[t]
    /\ tasks'[t] # <<>>
    /\ Len(trace') > Len(trace)
    /\ trace'[Len(trace')].ev = "skip"

\* the last output the node n recorded in the history
OutputsOf(n) == {j \in Idx : IsOf(j, "output", n)}

(***************************************************************************)
(* C38. Whenever executeNode skips a node that is in the executed set, the *)
(* value it returns is the output the node produced in the current         *)
(* execute: the node has returned an output in this execute and the value  *)
(* returned for the skip is the last of them, never an absent value.       *)
(***************************************************************************)
C38_SkipReturnsOutput ==
    [][\A t \in 1..Len(tasks) :
           SkipsOn(t) =>
               LET n == trace'[Len(trace')].node
                   v == Last(tasks'[t]).settled.val
               IN  /\ OutputsOf(n) # {}
                   /\ v = trace[Max(OutputsOf(n))].val
                   /\ v # Undefined]_vars

\* the input the caller means the start nodes to get: the value supplied,
\* the empty object only when none was supplied
SuppliedOrEmpty(v) == IF v = Undefined THEN EmptyObject ELSE v

(***************************************************************************)
(* C39. The input handed to every start node is exactly the value the      *)
(* caller supplied, whatever the value, 0 and null included; the empty     *)
(* object is handed only when no input was supplied.                       *)
(***************************************************************************)
C39_StartNodeInput ==
    call.phase # "idle" =>
        \A i \in Idx :
            (Is(i, "invoke") /\ trace[i].flag /\ trace[i].node \in Range(startNodes)) =>
                trace[i].val = SuppliedOrEmpty(call.optInput)

\* the engine keys, node:<id>:output and node:<id>:error, under which the
\* store holds something else after this step
ChangedKeys ==
    {k \in (DOMAIN store) \cup (DOMAIN store') :
         /\ k[1] = "node"
         /\ \/ StoreHas(store, k) # StoreHas(store', k)
            \/ StoreGet(store, k) # StoreGet(store', k)}

(***************************************************************************)
(* C40. A call of Node.execute changes one engine key and leaves the other *)
(* as it was: when the process function returned, the step of Node.execute *)
(* changes nothing but node:<id>:output, and when it threw, nothing but    *)
(* node:<id>:error.                                                        *)
(***************************************************************************)
C40_OneKeyPerCall ==
    [][(Len(trace') > Len(trace) /\ store' # store) =>
           LET e == trace'[Len(trace) + 1]
           IN  /\ e.ev \in {"output", "wresolved"} =>
                      ChangedKeys \subseteq {OutputKey(e.node)}
               /\ e.ev \in {"error", "wrejected"} => ChangedKeys \subseteq {ErrorKey(e.node)}]_vars

====
